---------------------------- MODULE Spec2Model ----------------------------
(***************************************************************************)
(* Notepad Pro: the Markdown rendering pipeline of src/core.js             *)
(* (SecurityManager.escapeHTML, MarkdownParser.parse / _inline,            *)
(* SecurityManager.sanitizeHTML) as called by NotepadApp._updatePreview.   *)
(*                                                                         *)
(* Strings are sequences of symbols.  A symbol is one character ("<",      *)
(* "*", " ") or an indivisible word standing for the characters it spells  *)
(* ("x", "onclick", "http://", "javascript:").  No pattern of the source   *)
(* looks inside a word.  Markup that the parser itself assembles is        *)
(* written as markup symbols ("<p>", "</code>", ...) so that a character   *)
(* that came from the user's text is never confused with one the parser    *)
(* wrote; Chars expands them to the characters the browser receives.       *)
(* The entities "&amp;", "&lt;", "&gt;", "&quot;" are symbols as well.     *)
(* The backtick cannot be written in a TLA+ string: its symbol is Grave.   *)
(***************************************************************************)
EXTENDS Integers, Sequences, FiniteSets, TLC

VARIABLES
    text,       \* argument of Markdown.parse (a JS value)
    pc,         \* position of the running call
    lines,      \* parse: const lines = text.split('\n')
    i,          \* parse: let i = 0
    output,     \* parse: const output = []
    starts,     \* history: for each entry of output, the index of its first line
    html,       \* argument of Security.sanitizeHTML (a JS value)
    result,     \* value returned by sanitizeHTML(html)
    result2,    \* value returned by sanitizeHTML(result)
    t_inline,   \* _inline: let t (the text under the replace passes)
    state,      \* NotepadStore: this.state
    storage,    \* localStorage: the item 'notepad-pro-state'
    _renderTimer,   \* NotepadApp: the animation frame requested by _updatePreview
    _saveTimer,     \* NotepadApp: the id of the auto-save timeout set last
    timeouts,   \* the auto-save timeouts pending (their ids)
    quotaExceeded,  \* localStorage.setItem throws QuotaExceededError
    modal,      \* ModalManager: the open confirmation and what its onConfirm captured
    toasts,     \* #toast-container: the undo toasts in the document
    timers,     \* the 5000 ms timeouts pending, in the order they were set
    confirmed,  \* history: the number of deletions confirmed
    thrown,     \* an event handler ended with an uncaught TypeError
    subscribers,    \* NotepadStore: this.subscribers
    frames,     \* the calls of _notifySubscribers in progress, the innermost first
    cancels,    \* the callbacks for which subscribe has returned a cancel function
    cancelled,  \* history: the callbacks cancelled and not subscribed again since
    saveStatus, \* #save-status: the status shown by _updateSaveStatus
    statusTimeouts, \* the 400 ms timeouts of _autoSave pending (their number)
    collapsed,  \* #sidebar: its classList contains 'collapsed'
    zenMode,    \* document.body: its classList contains 'zen-mode'
    dialog,     \* ModalManager: the class modal-active, _onConfirm and _onCancel
    opened,     \* history: the calls of Modal.confirm, their options and outcome
    invoked     \* history: the callbacks invoked, in order

\* the variables of the application around the rendering pipeline
\* the confirmation dialog, the undo toasts and their timeouts
trashVars == <<modal, toasts, timers, confirmed, thrown>>

\* the subscriptions of the store and the notifications in progress
storeVars == <<subscribers, frames, cancels, cancelled>>

\* the auto-save timeouts and the storage they write to
saveVars == <<timeouts, quotaExceeded>>

\* the status indicator, the sidebar, Zen Mode and the generic confirmation
shellVars == <<saveStatus, statusTimeouts, collapsed, zenMode, dialog, opened, invoked>>

appVars ==
    <<state, storage, _renderTimer, _saveTimer, saveVars, trashVars, storeVars, shellVars>>

vars == <<text, pc, lines, i, output, starts, html, result, result2, t_inline, appVars>>

---------------------------------------------------------------------------
(* JS values: typeof v === 'string' is v.t = "string"; v.v is the string,   *)
(* and for another value the string the DOM would coerce it to.            *)

JsStr(s) == [t |-> "string", v |-> s]

JsNull == [t |-> "null", v |-> <<>>]

JsUndefined == [t |-> "undefined", v |-> <<"undefined">>]

JsNumber == [t |-> "number", v |-> <<"4", "2">>]

JsObject == [t |-> "object", v |-> <<"[object Object]">>]

NonStrings == {JsNull, JsUndefined, JsNumber, JsObject}

---------------------------------------------------------------------------
(* NotepadStore as the pipeline's callers leave it: no note, nothing       *)
(* persisted, no timer pending.                                            *)

Null == "null"

\* constructor(): this.state (the fields the model follows)
EmptyState ==
    [notes |-> <<>>, activeNoteId |-> Null, trash |-> <<>>,
     ui |-> [sidebarCollapsed |-> FALSE, lastActiveNoteId |-> Null],
     hasUnsavedChanges |-> FALSE]

\* localStorage.getItem gives null: no item; a stored item x is <<x>>
NoItem == <<>>

NoFrame == [pending |-> FALSE, content |-> <<>>]

\* ModalManager constructor: this._onConfirm = null
NoModal == [open |-> FALSE, activeId |-> Null, note |-> JsNull]

\* no confirmation open, no toast shown, no timeout pending
TrashIdle ==
    /\ modal = NoModal
    /\ toasts = <<>>
    /\ timers = <<>>
    /\ confirmed = 0
    /\ thrown = FALSE

\* constructor(): this.subscribers = []
StoreIdle ==
    /\ subscribers = <<>>
    /\ frames = <<>>
    /\ cancels = {}
    /\ cancelled = {}

\* ModalManager constructor: this._onConfirm = null; this._onCancel = null
NoDialog == [active |-> FALSE, _onConfirm |-> JsNull, _onCancel |-> JsNull]

\* _init: _updateSaveStatus('saved'); no class toggled, no confirmation asked
ShellIdle ==
    /\ saveStatus = "saved"
    /\ statusTimeouts = 0
    /\ collapsed = FALSE
    /\ zenMode = FALSE
    /\ dialog = NoDialog
    /\ opened = <<>>
    /\ invoked = <<>>

AppIdle ==
    /\ state = EmptyState
    /\ storage = NoItem
    /\ _renderTimer = NoFrame
    /\ _saveTimer = Null
    /\ timeouts = {}
    /\ quotaExceeded = FALSE
    /\ TrashIdle
    /\ StoreIdle
    /\ ShellIdle

---------------------------------------------------------------------------
(* String primitives.                                                      *)

RECURSIVE Cat(_)
Cat(ss) == IF ss = <<>> THEN <<>> ELSE Head(ss) \o Cat(Tail(ss))

StartsAt(t, d, k) ==
    /\ k >= 1
    /\ k + Len(d) - 1 <= Len(t)
    /\ SubSeq(t, k, k + Len(d) - 1) = d

RECURSIVE IndexOf(_, _, _)
IndexOf(t, d, from) ==
    IF from + Len(d) - 1 > Len(t) THEN 0
    ELSE IF StartsAt(t, d, from) THEN from
    ELSE IndexOf(t, d, from + 1)

\* the backtick character
Grave == "grave"

WhiteSpace == {" ", "\t"}

RECURSIVE TrimLeft(_)
TrimLeft(s) ==
    IF s # <<>> /\ Head(s) \in WhiteSpace THEN TrimLeft(Tail(s)) ELSE s

RECURSIVE TrimRight(_)
TrimRight(s) ==
    IF s # <<>> /\ s[Len(s)] \in WhiteSpace
    THEN TrimRight(SubSeq(s, 1, Len(s) - 1)) ELSE s

Trim(s) == TrimRight(TrimLeft(s))

RECURSIVE Split(_, _)
Split(s, sep) ==
    LET k == IndexOf(s, <<sep>>, 1) IN
    IF k = 0 THEN <<s>>
    ELSE <<SubSeq(s, 1, k - 1)>> \o Split(SubSeq(s, k + 1, Len(s)), sep)

RECURSIVE Join(_, _)
Join(ss, sep) ==
    IF ss = <<>> THEN <<>>
    ELSE IF Len(ss) = 1 THEN ss[1]
    ELSE ss[1] \o sep \o Join(Tail(ss), sep)

---------------------------------------------------------------------------
(* SecurityManager.escapeHTML: div.textContent = text; return              *)
(* div.innerHTML.  The browser serialises a text node replacing "&", "<"   *)
(* and ">" by their entities; quotes in a text node are written as is.     *)

EscapeTextChar(c) ==
    CASE c = "&" -> "&amp;"
      [] c = "<" -> "&lt;"
      [] c = ">" -> "&gt;"
      [] OTHER   -> c

escapeHTML(v) ==
    IF v.t # "string" THEN <<>>
    ELSE [k \in 1..Len(v.v) |-> EscapeTextChar(v.v[k])]

---------------------------------------------------------------------------
(* MarkdownParser._inline: the ordered String.replace passes.              *)

\* t.replace(/D(.+?)D/g, o + '$1' + c) for a delimiter D of one or two characters
RECURSIVE ReplaceLazy(_, _, _, _, _)
ReplaceLazy(t, d, o, c, k) ==
    IF k > Len(t) THEN <<>>
    ELSE LET m == IF StartsAt(t, d, k)
                  THEN IndexOf(t, d, k + Len(d) + 1) ELSE 0 IN
         IF m # 0
         THEN <<o>> \o SubSeq(t, k + Len(d), m - 1) \o <<c>>
                    \o ReplaceLazy(t, d, o, c, m + Len(d))
         ELSE <<t[k]>> \o ReplaceLazy(t, d, o, c, k + 1)

\* t.replace(/x([^x]+)x/g, o + '$1' + c) for a single character x
RECURSIVE ReplaceNeg(_, _, _, _, _)
ReplaceNeg(t, x, o, c, k) ==
    IF k > Len(t) THEN <<>>
    ELSE LET m == IF t[k] = x THEN IndexOf(t, <<x>>, k + 1) ELSE 0 IN
         IF m >= k + 2
         THEN <<o>> \o SubSeq(t, k + 1, m - 1) \o <<c>>
                    \o ReplaceNeg(t, x, o, c, m + 1)
         ELSE <<t[k]>> \o ReplaceNeg(t, x, o, c, k + 1)

\* the two literal parts of the replacement string of the link pattern
AnchorOpen == "<a href=\""

AnchorMid == "\" target=\"_blank\" rel=\"noopener noreferrer\">"

\* the schemes /https?:\/\// accepts (the pattern has no i flag)
LinkSchemes == {"http://", "https://"}

\* t.replace(/\[([^\]]+)\]\((https?:\/\/[^)]+)\)/g,
\*           '<a href="$2" target="_blank" rel="noopener noreferrer">$1</a>')
RECURSIVE ReplaceLink(_, _)
ReplaceLink(t, k) ==
    IF k > Len(t) THEN <<>>
    ELSE LET rb == IF t[k] = "[" THEN IndexOf(t, <<"]">>, k + 1) ELSE 0
             ok == /\ rb >= k + 2
                   /\ rb + 2 <= Len(t)
                   /\ t[rb + 1] = "("
                   /\ t[rb + 2] \in LinkSchemes
             rp == IF ok THEN IndexOf(t, <<")">>, rb + 3) ELSE 0
         IN IF rp >= rb + 4
            THEN <<AnchorOpen>> \o SubSeq(t, rb + 2, rp - 1) \o <<AnchorMid>>
                   \o SubSeq(t, k + 1, rb - 1) \o <<"</a>">>
                   \o ReplaceLink(t, rp + 1)
            ELSE <<t[k]>> \o ReplaceLink(t, k + 1)

InlineCode(t) == ReplaceNeg(t, Grave, "<code>", "</code>", 1)

\* the bold replaces running after the italic ones
InlineBoldAfterItalic(t) ==
    LET u == ReplaceNeg(ReplaceNeg(t, "*", "<em>", "</em>", 1), "_", "<em>", "</em>", 1)
    IN ReplaceLazy(ReplaceLazy(u, <<"*", "*">>, "<strong>", "</strong>", 1),
                   <<"_", "_">>, "<strong>", "</strong>", 1)

InlineBold(t) ==
    ReplaceLazy(ReplaceLazy(t, <<"*", "*">>, "<strong>", "</strong>", 1),
                <<"_", "_">>, "<strong>", "</strong>", 1)

InlineItalic(t) ==
    ReplaceNeg(ReplaceNeg(t, "*", "<em>", "</em>", 1), "_", "<em>", "</em>", 1)

InlineMark(t) == ReplaceLazy(t, <<"=", "=">>, "<mark>", "</mark>", 1)

InlineDel(t) == ReplaceLazy(t, <<"~", "~">>, "<del>", "</del>", 1)

InlineLink(t) == ReplaceLink(t, 1)

_inline(s) ==
    InlineLink(InlineDel(InlineMark(InlineItalic(InlineBold(InlineCode(
        escapeHTML(JsStr(s))))))))

---------------------------------------------------------------------------
(* MarkdownParser.parse: the line classifiers of the while loop, in the    *)
(* order of its if-chain.  Line indices are the code's (from 0): line k    *)
(* is ls[k + 1].                                                           *)

Digits == {"0", "1", "2", "3", "4", "5", "6", "7", "8", "9"}

\* the pattern tested on the line as it is, white space included
IsHrUntrimmed(line) ==
    /\ Len(line) >= 3
    /\ \A k \in 1..Len(line) : line[k] = "-"

\* /^---+$/.test(line.trim())
IsHr(line) ==
    LET t == Trim(line) IN
    /\ Len(t) >= 3
    /\ \A k \in 1..Len(t) : t[k] = "-"

\* line.startsWith(three backticks)
IsFence(line) == StartsAt(line, <<Grave, Grave, Grave>>, 1)

\* the patterns with (.*) for (.+): a heading of no text
HeadingLevelAnyText(line) ==
    IF StartsAt(line, <<"#", "#", "#", " ">>, 1) THEN 3
    ELSE IF StartsAt(line, <<"#", "#", " ">>, 1) THEN 2
    ELSE IF StartsAt(line, <<"#", " ">>, 1) THEN 1
    ELSE 0

\* /^### (.+)/, /^## (.+)/, /^# (.+)/: the level matched first, 0 for none
HeadingLevel(line) ==
    IF StartsAt(line, <<"#", "#", "#", " ">>, 1) /\ Len(line) >= 5 THEN 3
    ELSE IF StartsAt(line, <<"#", "#", " ">>, 1) /\ Len(line) >= 4 THEN 2
    ELSE IF StartsAt(line, <<"#", " ">>, 1) /\ Len(line) >= 3 THEN 1
    ELSE 0

\* line.startsWith('> ')
IsQuote(line) == StartsAt(line, <<">", " ">>, 1)

\* /^[-*] /.test(line)
IsUl(line) == Len(line) >= 2 /\ line[1] \in {"-", "*"} /\ line[2] = " "

RECURSIVE DigitRun(_, _)
DigitRun(line, k) ==
    IF k <= Len(line) /\ line[k] \in Digits THEN 1 + DigitRun(line, k + 1) ELSE 0

\* /^\d+\. /: the length of the matched prefix, 0 for no match
OlPrefix(line) ==
    LET d == DigitRun(line, 1) IN
    IF d >= 1 /\ StartsAt(line, <<".", " ">>, d + 1) THEN d + 2 ELSE 0

IsOl(line) == OlPrefix(line) > 0

\* line.trim() === ''
IsBlank(line) == Trim(line) = <<>>

\* the branch of the if-chain a line takes when the loop is at its index
Kind(line) ==
    CASE IsHr(line)              -> "hr"
      [] IsFence(line)           -> "fence"
      [] HeadingLevel(line) > 0  -> "heading"
      [] IsQuote(line)           -> "quote"
      [] IsUl(line)              -> "ul"
      [] IsOl(line)              -> "ol"
      [] IsBlank(line)           -> "blank"
      [] OTHER                   -> "p"

\* while (i < lines.length && !lines[i].startsWith(fence)) i++
RECURSIVE FenceEnd(_, _)
FenceEnd(ls, k) ==
    IF k < Len(ls) /\ ~IsFence(ls[k + 1]) THEN FenceEnd(ls, k + 1) ELSE k

\* a group that ends after its first line
RunEndOne(ls, k, kind) == k + 1

\* while (i < lines.length && /^[-*] /.test(lines[i])) i++, for each group kind
RECURSIVE RunEnd(_, _, _)
RunEnd(ls, k, kind) ==
    IF k < Len(ls) /\ ( \/ kind = "quote" /\ IsQuote(ls[k + 1])
                        \/ kind = "ul" /\ IsUl(ls[k + 1])
                        \/ kind = "ol" /\ IsOl(ls[k + 1]) )
    THEN RunEnd(ls, k + 1, kind) ELSE k

Slice(line, n) == SubSeq(line, n + 1, Len(line))

HeadingBlock(line) ==
    LET n == HeadingLevel(line)
        h == CASE n = 3 -> "h3" [] n = 2 -> "h2" [] OTHER -> "h1"
    IN <<"<" \o h \o ">">> \o _inline(Slice(line, n + 1)) \o <<"</" \o h \o ">">>

\* the code block formatting its lines as a paragraph's text is formatted
CodeBlockInline(ls, from, to) ==
    <<"<pre>", "<code>">>
      \o Join([k \in 1..(to - from) |-> _inline(ls[from + k])], <<"\n">>)
      \o <<"</code>", "</pre>">>

CodeBlock(ls, from, to) ==
    <<"<pre>", "<code>">>
      \o Join([k \in 1..(to - from) |-> escapeHTML(JsStr(ls[from + k]))], <<"\n">>)
      \o <<"</code>", "</pre>">>

\* the blockquote holding its lines' remainders escaped and not formatted
QuoteBlockEscaped(ls, from, to) ==
    <<"<blockquote>">>
      \o Join([k \in 1..(to - from) |-> escapeHTML(JsStr(Slice(ls[from + k], 2)))],
              <<"<br>">>)
      \o <<"</blockquote>">>

QuoteBlock(ls, from, to) ==
    <<"<blockquote>">>
      \o Join([k \in 1..(to - from) |-> _inline(Slice(ls[from + k], 2))], <<"<br>">>)
      \o <<"</blockquote>">>

UlBlock(ls, from, to) ==
    <<"<ul>">>
      \o Cat([k \in 1..(to - from) |->
                <<"<li>">> \o _inline(Slice(ls[from + k], 2)) \o <<"</li>">>])
      \o <<"</ul>">>

OlBlock(ls, from, to) ==
    <<"<ol>">>
      \o Cat([k \in 1..(to - from) |->
                <<"<li>">> \o _inline(Slice(ls[from + k], OlPrefix(ls[from + k])))
                           \o <<"</li>">>])
      \o <<"</ol>">>

\* the paragraph branch escaping the line without formatting it
ParagraphBlockNoInline(line) == <<"<p>">> \o escapeHTML(JsStr(line)) \o <<"</p>">>

ParagraphBlock(line) == <<"<p>">> \o _inline(line) \o <<"</p>">>

---------------------------------------------------------------------------
(* The browser's fragment parser behind `temp.innerHTML = html`            *)
(* (sanitizeHTML).  The document tree is the sequence of its nodes in      *)
(* document order: an element is an "open" node, its content and a         *)
(* "close" node; a void element is one "void" node; text is one "text"     *)
(* node per character ("raw" inside script, style and iframe, whose        *)
(* content the tokenizer does not interpret).                              *)
(* Modelled of the HTML parsing algorithm: the tag, attribute and          *)
(* raw-text states of the tokenizer with the handling of an input that     *)
(* ends inside a tag, character references, lower-casing of names, the     *)
(* first of two attributes of one name winning, void elements, an end tag  *)
(* closing the nearest open element of its name together with the          *)
(* elements opened inside it, a template as a boundary for end tags, and   *)
(* the closing of all open elements at the end of the input.  Not          *)
(* modelled: comments, foreign content, tables, and the re-parenting of    *)
(* misnested formatting elements.                                          *)

Node(k, name, attrs, ch) == [k |-> k, name |-> name, attrs |-> attrs, ch |-> ch]

Spaces == {" ", "\t", "\n"}

Entities == {"&amp;", "&lt;", "&gt;", "&quot;"}

\* the symbols that are not a word beginning with a letter
NonAlpha ==
    Spaces \cup Entities \cup Digits \cup
    {"<", ">", "&", "\"", "'", "=", "/", "*", "_", "~", "[", "]", "(", ")",
     "#", "-", ".", ":", ";", "!", "?", Grave}

IsAlpha(c) == c \notin NonAlpha

\* ASCII lower-casing of a symbol
Lower(c) ==
    CASE c = "SCRIPT"      -> "script"
      [] c = "ONCLICK"     -> "onclick"
      [] c = "HREF"        -> "href"
      [] c = "SRC"         -> "src"
      [] c = "JavaScript:" -> "javascript:"
      [] c = "JAVASCRIPT:" -> "javascript:"
      [] c = "HTTP://"     -> "http://"
      [] c = "HTTPS://"    -> "https://"
      [] OTHER             -> c

\* a character reference in text or in an attribute value
Decode(c) ==
    CASE c = "&amp;"  -> "&"
      [] c = "&lt;"   -> "<"
      [] c = "&gt;"   -> ">"
      [] c = "&quot;" -> "\""
      [] OTHER        -> c

RECURSIVE Glue(_)
Glue(ss) == IF ss = <<>> THEN "" ELSE Lower(Head(ss)) \o Glue(Tail(ss))

RECURSIVE SkipSpace(_, _)
SkipSpace(s, q) ==
    IF q <= Len(s) /\ s[q] \in Spaces THEN SkipSpace(s, q + 1) ELSE q

RECURSIVE RunUntil(_, _, _)
RunUntil(s, q, stop) ==
    IF q <= Len(s) /\ s[q] \notin stop THEN RunUntil(s, q + 1, stop) ELSE q

HasAttr(attrs, name) == \E k \in 1..Len(attrs) : attrs[k].name = name

AddAttr(attrs, name, value) ==
    IF HasAttr(attrs, name) THEN attrs
    ELSE Append(attrs, [name |-> name,
                        value |-> [k \in 1..Len(value) |-> Decode(value[k])]])

\* the attributes of a tag from position q0 up to its ">"; ok is FALSE when
\* the input ends inside the tag
RECURSIVE ScanAttrs(_, _, _)
ScanAttrs(s, q0, attrs) ==
    LET q == SkipSpace(s, q0) IN
    IF q > Len(s) THEN [ok |-> FALSE, attrs |-> attrs, next |-> q]
    ELSE IF s[q] = ">" THEN [ok |-> TRUE, attrs |-> attrs, next |-> q + 1]
    ELSE IF s[q] = "/" THEN ScanAttrs(s, q + 1, attrs)
    ELSE
      LET e     == RunUntil(s, q + 1, Spaces \cup {"/", ">", "="})
          name  == Glue(SubSeq(s, q, e - 1))
          a     == SkipSpace(s, e)
          hasEq == a <= Len(s) /\ s[a] = "="
          v     == SkipSpace(s, a + 1)
      IN
      IF ~hasEq THEN ScanAttrs(s, e, AddAttr(attrs, name, <<>>))
      ELSE IF v > Len(s) THEN [ok |-> FALSE, attrs |-> attrs, next |-> v]
      ELSE IF s[v] \in {"\"", "'"} THEN
          LET c == IndexOf(s, <<s[v]>>, v + 1) IN
          IF c = 0 THEN [ok |-> FALSE, attrs |-> attrs, next |-> Len(s) + 1]
          ELSE ScanAttrs(s, c + 1, AddAttr(attrs, name, SubSeq(s, v + 1, c - 1)))
      ELSE IF s[v] = ">" THEN
          [ok |-> TRUE, attrs |-> AddAttr(attrs, name, <<>>), next |-> v + 1]
      ELSE
          LET u == RunUntil(s, v, Spaces \cup {">"}) IN
          ScanAttrs(s, u, AddAttr(attrs, name, SubSeq(s, v, u - 1)))

\* a tag whose name starts at position p
ScanTag(s, p) ==
    LET e == RunUntil(s, p, Spaces \cup {"/", ">"})
        r == ScanAttrs(s, e, <<>>)
    IN [ok |-> r.ok, name |-> Glue(SubSeq(s, p, e - 1)),
        attrs |-> r.attrs, next |-> r.next]

RawTextTags == {"script", "style", "iframe"}

\* the position of the end tag that closes a raw-text element, Len(s) + 1 for none
RECURSIVE RawEnd(_, _, _)
RawEnd(s, q, name) ==
    IF q > Len(s) THEN q
    ELSE IF /\ q + 3 <= Len(s)
            /\ s[q] = "<" /\ s[q + 1] = "/" /\ Lower(s[q + 2]) = name
            /\ s[q + 3] \in Spaces \cup {"/", ">"}
         THEN q
    ELSE RawEnd(s, q + 1, name)

RECURSIVE Tokenize(_, _)
Tokenize(s, p) ==
    IF p > Len(s) THEN <<>>
    ELSE IF s[p] = "<" /\ p + 1 <= Len(s) /\ IsAlpha(s[p + 1]) THEN
        LET g == ScanTag(s, p + 1) IN
        IF ~g.ok THEN <<>>
        ELSE IF g.name \in RawTextTags THEN
            LET c == RawEnd(s, g.next, g.name) IN
            <<Node("open", g.name, g.attrs, "")>>
              \o [k \in 1..(c - g.next) |-> Node("raw", "", <<>>, s[g.next + k - 1])]
              \o Tokenize(s, c)
        ELSE <<Node("open", g.name, g.attrs, "")>> \o Tokenize(s, g.next)
    ELSE IF s[p] = "<" /\ p + 2 <= Len(s) /\ s[p + 1] = "/" /\ IsAlpha(s[p + 2]) THEN
        LET g == ScanTag(s, p + 2) IN
        IF ~g.ok THEN <<>>
        ELSE <<Node("close", g.name, <<>>, "")>> \o Tokenize(s, g.next)
    ELSE <<Node("text", "", <<>>, Decode(s[p]))>> \o Tokenize(s, p + 1)

VoidTags ==
    {"area", "base", "br", "col", "embed", "hr", "img", "input", "link", "meta",
     "source", "track", "wbr"}

\* the distance from the top of the stack of open elements to the nearest
\* element called name, 0 when a template is met first or there is none
RECURSIVE FindOpen(_, _, _)
FindOpen(stack, name, d) ==
    IF d > Len(stack) THEN 0
    ELSE IF stack[Len(stack) + 1 - d] = name THEN d
    ELSE IF stack[Len(stack) + 1 - d] = "template" THEN 0
    ELSE FindOpen(stack, name, d + 1)

\* the close nodes of the d innermost open elements, innermost first
ClosesOf(stack, d) ==
    [k \in 1..d |-> Node("close", stack[Len(stack) + 1 - k], <<>>, "")]

RECURSIVE Build(_, _)
Build(toks, stack) ==
    IF toks = <<>> THEN ClosesOf(stack, Len(stack))
    ELSE
      LET t == Head(toks) IN
      IF t.k = "open" THEN
          IF t.name \in VoidTags
          THEN <<Node("void", t.name, t.attrs, "")>> \o Build(Tail(toks), stack)
          ELSE <<t>> \o Build(Tail(toks), Append(stack, t.name))
      ELSE IF t.k = "close" THEN
          LET d == FindOpen(stack, t.name, 1) IN
          ClosesOf(stack, d) \o Build(Tail(toks), SubSeq(stack, 1, Len(stack) - d))
      ELSE <<t>> \o Build(Tail(toks), stack)

\* temp.innerHTML = html
ParseFragment(s) == Build(Tokenize(s, 1), <<>>)

---------------------------------------------------------------------------
(* SecurityManager.sanitizeHTML.                                           *)

\* the selector list of temp.querySelectorAll('script, style, ...')
DenyList ==
    {"script", "style", "iframe", "object", "embed", "form", "input", "button",
     "link", "meta"}

\* attr.name.startsWith('on'), over the attribute names of the model
StartsWithOn(name) ==
    name \in {"on", "onclick", "onerror", "onload", "onmouseover", "once"}

\* /^javascript:/i.test(attr.value)
IsJavascriptValue(value) == value # <<>> /\ Lower(value[1]) = "javascript:"

\* UnsafeAttr with the scheme test lost: every href is removed
UnsafeAttrAnyHref(a) == StartsWithOn(a.name) \/ a.name = "href"

\* attr.name.startsWith('on') || attr.name === 'href' && /^javascript:/i.test(attr.value)
UnsafeAttr(a) ==
    StartsWithOn(a.name) \/ (a.name = "href" /\ IsJavascriptValue(a.value))

\* StripAttrs iterating the live el.attributes instead of a copy of it: after
\* a removal the attribute that follows takes the removed one's place and is
\* never visited
RECURSIVE StripAttrsLive(_, _)
StripAttrsLive(attrs, k) ==
    IF k > Len(attrs) THEN attrs
    ELSE IF UnsafeAttr(attrs[k])
    THEN StripAttrsLive(SubSeq(attrs, 1, k - 1) \o SubSeq(attrs, k + 1, Len(attrs)),
                        k + 1)
    ELSE StripAttrsLive(attrs, k + 1)

StripAttrsOnLiveList(attrs) == StripAttrsLive(attrs, 1)

\* Array.from(el.attributes).forEach(attr => { if (...) el.removeAttribute(attr.name) })
StripAttrs(attrs) == SelectSeq(attrs, LAMBDA a : ~UnsafeAttr(a))

\* For each node, how many elements enclose it counting from the outermost
\* template inwards: 0 for a node of the tree proper.  The contents of a
\* template are a separate fragment which querySelectorAll does not search.
RECURSIVE TemplateDepth(_, _, _)
TemplateDepth(ns, k, d) ==
    IF k > Len(ns) THEN <<>>
    ELSE LET n  == ns[k]
             d2 == IF n.k = "open" /\ (d > 0 \/ n.name = "template") THEN d + 1
                   ELSE IF n.k = "close" /\ d > 0 THEN d - 1
                   ELSE d
         IN <<d>> \o TemplateDepth(ns, k + 1, d2)

IsElement(n) == n.k \in {"open", "void"}

\* temp.querySelectorAll(<deny list>).forEach(el => el.remove())
RECURSIVE RemoveWalk(_, _, _, _)
RemoveWalk(ns, td, k, skip) ==
    IF k > Len(ns) THEN <<>>
    ELSE LET n == ns[k] IN
         IF skip > 0
         THEN RemoveWalk(ns, td, k + 1,
                         IF n.k = "open" THEN skip + 1
                         ELSE IF n.k = "close" THEN skip - 1 ELSE skip)
         ELSE IF IsElement(n) /\ td[k] = 0 /\ n.name \in DenyList
         THEN RemoveWalk(ns, td, k + 1, IF n.k = "open" THEN 1 ELSE 0)
         ELSE <<n>> \o RemoveWalk(ns, td, k + 1, 0)

RemoveDangerous(ns) == RemoveWalk(ns, TemplateDepth(ns, 1, 0), 1, 0)

\* temp.querySelectorAll('*').forEach(el => ...)
StripAll(ns) ==
    LET td == TemplateDepth(ns, 1, 0) IN
    [k \in 1..Len(ns) |->
        IF IsElement(ns[k]) /\ td[k] = 0
        THEN [ns[k] EXCEPT !.attrs = StripAttrs(@)]
        ELSE ns[k]]

\* the serialisation of an attribute value
EscapeAttrChar(c) ==
    CASE c = "&"  -> "&amp;"
      [] c = "\"" -> "&quot;"
      [] OTHER    -> c

SerializeAttr(a) ==
    <<" ", a.name, "=", "\"">>
      \o [k \in 1..Len(a.value) |-> EscapeAttrChar(a.value[k])] \o <<"\"">>

SerializeNode(n) ==
    CASE IsElement(n) ->
            <<"<", n.name>>
              \o Cat([k \in 1..Len(n.attrs) |-> SerializeAttr(n.attrs[k])])
              \o <<">">>
      [] n.k = "close" -> <<"<", "/", n.name, ">">>
      [] n.k = "raw"   -> <<n.ch>>
      [] OTHER         -> <<EscapeTextChar(n.ch)>>

\* return temp.innerHTML
Serialize(ns) == Cat([k \in 1..Len(ns) |-> SerializeNode(ns[k])])

\* the sanitizer pass on a fragment given as a string
SanitizeString(s) == Serialize(StripAll(RemoveDangerous(ParseFragment(s))))

\* sanitizeHTML without its typeof guard: innerHTML receives the value coerced
sanitizeHTMLUnguarded(v) ==
    SanitizeString(IF v.t = "null" THEN <<>> ELSE v.v)

sanitizeHTML(v) ==
    IF v.t # "string" THEN <<>>
    ELSE SanitizeString(v.v)

---------------------------------------------------------------------------
(* The characters of the markup the parser assembles.                      *)

MarkupTags ==
    {"hr", "br", "pre", "code", "h1", "h2", "h3", "blockquote", "ul", "ol", "li",
     "p", "strong", "em", "mark", "del", "a"}

CharsOf(c) ==
    IF c = AnchorOpen THEN <<"<", "a", " ", "href", "=", "\"">>
    ELSE IF c = AnchorMid
    THEN <<"\"", " ", "target", "=", "\"", "_blank", "\"", " ", "rel", "=", "\"",
           "noopener", " ", "noreferrer", "\"", ">">>
    ELSE IF \E n \in MarkupTags : c = "<" \o n \o ">"
    THEN <<"<", CHOOSE n \in MarkupTags : c = "<" \o n \o ">", ">">>
    ELSE IF \E n \in MarkupTags : c = "</" \o n \o ">"
    THEN <<"<", "/", CHOOSE n \in MarkupTags : c = "</" \o n \o ">", ">">>
    ELSE <<c>>

Chars(s) == Cat([k \in 1..Len(s) |-> CharsOf(s[k])])

---------------------------------------------------------------------------
(* MarkdownParser.parse followed by NotepadApp._updatePreview's            *)
(* preview.innerHTML = Security.sanitizeHTML(html): one action for the     *)
(* early return, one for the split, one for each branch of the while       *)
(* loop, one for the join and one for the sanitizer pass.                  *)

\* the guard of parse without its !text half
ParseReturnsEarlyTypeOnly(v) == v.t # "string"

\* if (!text || typeof text !== 'string') return ''
ParseReturnsEarly(v) == v.t # "string" \/ v.v = <<>>

Line == lines[i + 1]

Scanning(kind) == pc = "scan" /\ i < Len(lines) /\ Kind(Line) = kind

\* Emit leaving one line more behind than the block holds
EmitSkipping(block, next) ==
    /\ output' = Append(output, block)
    /\ starts' = Append(starts, i)
    /\ i' = next + 1
    /\ UNCHANGED <<text, pc, lines, html, result, result2, t_inline, appVars>>

Emit(block, next) ==
    /\ output' = Append(output, block)
    /\ starts' = Append(starts, i)
    /\ i' = next
    /\ UNCHANGED <<text, pc, lines, html, result, result2, t_inline, appVars>>

ParseEmpty ==
    /\ pc = "call"
    /\ ParseReturnsEarly(text)
    /\ pc' = "parsed"
    /\ html' = JsStr(<<>>)
    /\ UNCHANGED <<text, lines, i, output, starts, result, result2, t_inline, appVars>>

\* output kept from one call of parse to the next, as a property of the
\* parser object would be
ParseSplitKeepingOutput ==
    /\ pc = "call"
    /\ ~ParseReturnsEarly(text)
    /\ lines' = Split(text.v, "\n")
    /\ i' = 0
    /\ pc' = "scan"
    /\ UNCHANGED <<text, output, starts, html, result, result2, t_inline, appVars>>

ParseSplit ==
    /\ pc = "call"
    /\ ~ParseReturnsEarly(text)
    /\ lines' = Split(text.v, "\n")
    /\ i' = 0
    /\ output' = <<>>
    /\ starts' = <<>>
    /\ pc' = "scan"
    /\ UNCHANGED <<text, html, result, result2, t_inline, appVars>>

ScanHr == Scanning("hr") /\ Emit(<<"<hr>">>, i + 1)

\* the code block pushed only when its closing fence was found
ScanFenceClosedOnly ==
    /\ Scanning("fence")
    /\ LET e == FenceEnd(lines, i + 1) IN
       IF e < Len(lines) THEN Emit(CodeBlock(lines, i + 1, e), e + 1)
       ELSE /\ i' = e + 1
            /\ UNCHANGED <<text, pc, lines, output, starts, html, result, result2,
                           t_inline, appVars>>

ScanFence ==
    /\ Scanning("fence")
    /\ LET e == FenceEnd(lines, i + 1) IN Emit(CodeBlock(lines, i + 1, e), e + 1)

ScanHeading == Scanning("heading") /\ Emit(HeadingBlock(Line), i + 1)

ScanQuote ==
    /\ Scanning("quote")
    /\ LET e == RunEnd(lines, i, "quote") IN Emit(QuoteBlock(lines, i, e), e)

ScanUl ==
    /\ Scanning("ul")
    /\ LET e == RunEnd(lines, i, "ul") IN Emit(UlBlock(lines, i, e), e)

ScanOl ==
    /\ Scanning("ol")
    /\ LET e == RunEnd(lines, i, "ol") IN Emit(OlBlock(lines, i, e), e)

ScanBlank == Scanning("blank") /\ Emit(<<"<br>">>, i + 1)

ScanParagraph == Scanning("p") /\ Emit(ParagraphBlock(Line), i + 1)

\* return output.join('')
ParseJoin ==
    /\ pc = "scan"
    /\ i >= Len(lines)
    /\ html' = JsStr(Chars(Cat(output)))
    /\ pc' = "parsed"
    /\ UNCHANGED <<text, lines, i, output, starts, result, result2, t_inline, appVars>>

\* preview.innerHTML = Security.sanitizeHTML(html)
PreviewSanitize ==
    /\ pc = "parsed"
    /\ result' = sanitizeHTML(html)
    /\ pc' = "rendered"
    /\ UNCHANGED <<text, lines, i, output, starts, html, result2, t_inline, appVars>>

---------------------------------------------------------------------------
(* The texts rendered.  A text is up to MaxLines lines, each one of        *)
(* LinePool, joined by line feeds; the empty text and values that are not  *)
(* strings are rendered as well.                                           *)

MaxLines == 2

\* a body holding each of the five characters of HTML syntax
Body == <<"a", "<", "b", ">", "&", "\"", "'">>

LinePool ==
    { <<"-", "-", "-">>,
      <<Grave, Grave, Grave>>,
      <<"#", " ">> \o Body,
      <<">", " ">> \o Body,
      <<"-", " ">> \o Body,
      <<"1", ".", " ">> \o Body,
      <<>>,
      Body,
      <<"#", "x">>,
      <<"[">> \o Body \o <<"]", "(", "http://", "u", ")">>,
      <<"[", "x", "]", "(", "https://">> \o Body \o <<")">>,
      <<"[", "x", "]", "(", "https://", "u", "\"", " ", "onclick", "=", "\"", "e", ")">>,
      <<"[", "x", "]", "(", "https://", "u", "\"", " ", "src", "=", "\"",
        "javascript:", "e", ")">>,
      <<"[", "x", "]", "(", "https://", "u", "\"", " ", "rel", "=", "\"", "x", ")">>,
      <<"[", "x", "]", "(", "javascript:", "e", ")">>,
      <<"<", "script", ">", "e", "<", "/", "script", ">">>,
      <<"*", "*", "x", "*", "*", " ", "_", "y", "_">> }

RECURSIVE LineSeqs(_)
LineSeqs(n) ==
    IF n = 0 THEN {<<>>}
    ELSE LET shorter == LineSeqs(n - 1) IN
         shorter \cup {Append(ls, l) : ls \in {x \in shorter : Len(x) = n - 1},
                                       l \in LinePool}

\* Longer texts, of up to MaxBlockLines lines of BlockPool: one line of each
\* block construct, for the grouping of lines into blocks.
MaxBlockLines == 3

BlockPool ==
    { <<Grave, Grave, Grave>>,
      <<"-", " ", "*", "a", "*">>,
      <<"*", " ", "e">>,
      <<"1", ".", " ", "_", "b", "_">>,
      <<"#", " ", "c">>,
      <<">", " ", "d">>,
      <<">", " ", "*", "q", "*">>,
      <<"-", "-", "-">>,
      <<>>,
      <<"*", "x", "*", " ", "<">> }

RECURSIVE BlockSeqs(_)
BlockSeqs(n) ==
    IF n = 0 THEN {<<>>}
    ELSE LET shorter == BlockSeqs(n - 1) IN
         shorter \cup {Append(ls, l) : ls \in {x \in shorter : Len(x) = n - 1},
                                       l \in BlockPool}

\* Lines at the edge of the thematic-break, heading and blockquote patterns.
MaxMarkerLines == 2

MarkerPool ==
    { <<" ", "-", "-", "-", " ">>,
      <<"-", "-">>,
      <<"-", "-", "-", "-">>,
      <<"-", "-", "-", "x">>,
      <<"#", " ">>,
      <<"#", "#", " ", "a">>,
      <<"#", "#", "#", " ", "*", "a", "*">>,
      <<"#", "#", "#", "#", " ", "a">>,
      <<" ", "#", " ", "a">>,
      <<">", " ", "*", "q", "*">>,
      <<">", " ", "d">>,
      <<">", "x">>,
      <<Grave, Grave, Grave>> }

RECURSIVE MarkerSeqs(_)
MarkerSeqs(n) ==
    IF n = 0 THEN {<<>>}
    ELSE LET shorter == MarkerSeqs(n - 1) IN
         shorter \cup {Append(ls, l) : ls \in {x \in shorter : Len(x) = n - 1},
                                       l \in MarkerPool}

RenderInputs ==
    {JsStr(Join(ls, <<"\n">>)) : ls \in LineSeqs(MaxLines) \cup BlockSeqs(MaxBlockLines)
                                       \cup MarkerSeqs(MaxMarkerLines)}
      \cup NonStrings

InitRender ==
    /\ text \in RenderInputs
    /\ pc = "call"
    /\ lines = <<>>
    /\ i = 0
    /\ output = <<>>
    /\ starts = <<>>
    /\ html = JsStr(<<>>)
    /\ result = <<>>
    /\ result2 = <<>>
    /\ AppIdle
    /\ t_inline = <<>>

NextRender ==
    \/ ParseEmpty
    \/ ParseSplit
    \/ ScanHr
    \/ ScanFence
    \/ ScanHeading
    \/ ScanQuote
    \/ ScanUl
    \/ ScanOl
    \/ ScanBlank
    \/ ScanParagraph
    \/ ParseJoin
    \/ PreviewSanitize

SpecRender == InitRender /\ [][NextRender]_vars

---------------------------------------------------------------------------
(* Security.sanitizeHTML called on a fragment of any origin, and called    *)
(* again on what it returned.                                              *)

SanitizeCall ==
    /\ pc = "san_call"
    /\ result' = sanitizeHTML(html)
    /\ pc' = "san_returned"
    /\ UNCHANGED <<text, lines, i, output, starts, html, result2, t_inline, appVars>>

SanitizeAgain ==
    /\ pc = "san_returned"
    /\ result2' = sanitizeHTML(JsStr(result))
    /\ pc' = "san_again"
    /\ UNCHANGED <<text, lines, i, output, starts, html, result, t_inline, appVars>>

(* The fragments sanitized: one element of every kind of TagPool with      *)
(* every attribute list of AttrPool, followed by a text, wrapped in up to  *)
(* MaxDepth elements of WrapPool; the markup of the parser's own blocks;   *)
(* malformed markup; values that are not strings.                          *)

MaxDepth == 2

Element(name, attrs, content) ==
    IF name \in VoidTags THEN <<"<", name>> \o attrs \o <<">">> \o content
    ELSE <<"<", name>> \o attrs \o <<">">> \o content \o <<"<", "/", name, ">">>

SafeLink ==
    <<" ", "href", "=", "\"", "http://", "u", "\"", " ", "target", "=", "\"",
      "_blank", "\"", " ", "rel", "=", "\"", "noopener", " ", "noreferrer", "\"">>

AttrPool ==
    { <<>>,
      SafeLink,
      <<" ", "onclick", "=", "\"", "e", "\"">>,
      <<" ", "ONCLICK", "=", "e">>,
      <<" ", "onclick", "=", "\"", "e", "\"", " ", "onload", "=", "\"", "e", "\"",
        " ", "id", "=", "\"", "k", "\"">>,
      <<" ", "href", "=", "\"", "javascript:", "e", "\"">>,
      <<" ", "href", "=", "\"", "JavaScript:", "e", "\"">>,
      <<" ", "href", "=", "\"", " ", "javascript:", "e", "\"">>,
      <<" ", "src", "=", "\"", "javascript:", "e", "\"">>,
      <<" ", "title", "=", "'", "a", "\"", "&amp;", "<", "'">> }

TagPool == DenyList \cup {"p", "a", "img", "em", "template"}

WrapPool ==
    { <<"blockquote", <<>>>>,
      <<"template", <<>>>>,
      <<"div", <<" ", "href", "=", "\"", "javascript:", "e", "\"", " ", "onclick",
                 "=", "e">>>> }

RECURSIVE Wrapped(_, _)
Wrapped(cores, d) ==
    IF d = 0 THEN cores
    ELSE LET inner == Wrapped(cores, d - 1) IN
         inner \cup {Element(w[1], w[2], x) : w \in WrapPool, x \in inner}

Cores == {Element(n, a, <<"t">>) \o <<"u">> : n \in TagPool, a \in AttrPool}

BenignPool ==
    { Chars(<<"<h1>", "x", "</h1>", "<h2>", "x", "</h2>", "<h3>", "x", "</h3>">>),
      Chars(<<"<p>", "<strong>", "x", "</strong>", " ", "<em>", "y", "</em>", "</p>">>),
      Chars(<<"<ul>", "<li>", "x", "</li>", "<li>", "y", "</li>", "</ul>",
              "<ol>", "<li>", "x", "</li>", "</ol>">>),
      Chars(<<"<blockquote>", "x", "<br>", "y", "</blockquote>", "<hr>", "<br>">>),
      Chars(<<"<pre>", "<code>", "x", "\n", "&lt;", "y", "</code>", "</pre>">>),
      Chars(<<"<p>", AnchorOpen, "https://", "u", AnchorMid, "x", "</a>", "</p>">>),
      Chars(<<"<p>", "x", " ", "&amp;", " ", "\"", "y", "\"", "</p>">>) }

Malformed ==
    { <<"<", "p", " ", "onclick", "=", "\"", "e">>,
      <<"t", "<", "p", " ", "onclick">>,
      <<"<", "/", "div", ">", "t">>,
      <<"<", "p", " ", "onclick", "=", "e", ">", "t">>,
      <<"t", "<">>,
      <<"<", "script", ">", "<", "p", ">", "t">>,
      <<"<", "div", ">", "t", "<", "/", "em", ">", "<", "/", "template", ">",
        "<", "input", " ", "onclick", ">">>,
      <<"<", "div", " ", "id", "=", "a", " ", "id", "=", "b", " ", "/", ">", "<",
        "blockquote", ">", "t", "<", "/", "div", ">", "u">> }

SanitizeInputs ==
    {JsStr(x) : x \in Wrapped(Cores, MaxDepth) \cup BenignPool \cup Malformed}
      \cup {JsStr(x \o y) : x \in BenignPool, y \in BenignPool}
      \cup NonStrings

InitSanitize ==
    /\ html \in SanitizeInputs
    /\ pc = "san_call"
    /\ text = JsStr(<<>>)
    /\ lines = <<>>
    /\ i = 0
    /\ output = <<>>
    /\ starts = <<>>
    /\ result = <<>>
    /\ result2 = <<>>
    /\ AppIdle
    /\ t_inline = <<>>

NextSanitize == SanitizeCall \/ SanitizeAgain

SpecSanitize == InitSanitize /\ [][NextSanitize]_vars

---------------------------------------------------------------------------
(* MarkdownParser._inline called on a text of its own, one action for each *)
(* assignment to t.                                                        *)

InlinePass(to, value) ==
    /\ t_inline' = value
    /\ pc' = to
    /\ UNCHANGED <<text, lines, i, output, starts, html, result, result2, appVars>>

\* let t = Security.escapeHTML(text)
InlineEscape == pc = "inl_call" /\ InlinePass("inl_escaped", escapeHTML(text))

InlineCodePass == pc = "inl_escaped" /\ InlinePass("inl_code", InlineCode(t_inline))

InlineBoldPass == pc = "inl_code" /\ InlinePass("inl_bold", InlineBold(t_inline))

InlineItalicPass == pc = "inl_bold" /\ InlinePass("inl_italic", InlineItalic(t_inline))

InlineMarkPass == pc = "inl_italic" /\ InlinePass("inl_mark", InlineMark(t_inline))

InlineDelPass == pc = "inl_mark" /\ InlinePass("inl_del", InlineDel(t_inline))

\* the link replacement, and return t
InlineLinkPass == pc = "inl_del" /\ InlinePass("inl_returned", InlineLink(t_inline))

(* The texts formatted: up to MaxTokens tokens of InlineTokens in a row,   *)
(* the link texts of every scheme, well formed and not, and a sample of    *)
(* each remaining delimiter.                                               *)

MaxTokens == 4

InlineTokens ==
    { <<"*", "*">>, <<"*">>, <<"_">>, <<Grave>>, <<"=", "=">>, <<"a">>,
      <<"[", "b", "]", "(", "http://", "u", ")">> }

RECURSIVE TokenTexts(_)
TokenTexts(n) ==
    IF n = 0 THEN {<<>>}
    ELSE LET shorter == TokenTexts(n - 1) IN
         shorter \cup {x \o tok : x \in shorter, tok \in InlineTokens}

Schemes == {"http://", "https://", "HTTP://", "HTTPS://", "javascript:", "data:", "ftp://"}

LinkLabels == {<<"x">>, <<"*", "x", "<">>, <<>>}

LinkTexts ==
    { <<"[">> \o label \o <<"]">> \o gap \o <<"(", scheme, "u">> \o close :
        label \in LinkLabels, gap \in {<<>>, <<" ">>}, scheme \in Schemes,
        close \in {<<")">>, <<>>} }

InlineSamples ==
    { <<"~", "~", "a", "~", "~">>,
      <<Grave, "*", "a", "*", Grave>>,
      <<Grave, "a", "<", "b", Grave>>,
      <<Grave, "~", "~", "a", "~", "~", " ", "_", "_", "b", "_", "_", Grave>>,
      <<"_", "_", "a", "_", "_", " ", "=", "=", "b", "=", "=">>,
      <<"a", "<", "b", ">", "&", "\"", "'">> }

InlineInputs ==
    {JsStr(x) : x \in (TokenTexts(MaxTokens) \cup LinkTexts \cup InlineSamples) \ {<<>>}}

InitInline ==
    /\ text \in InlineInputs
    /\ pc = "inl_call"
    /\ t_inline = <<>>
    /\ lines = <<>>
    /\ i = 0
    /\ output = <<>>
    /\ starts = <<>>
    /\ html = JsStr(<<>>)
    /\ result = <<>>
    /\ result2 = <<>>
    /\ AppIdle

NextInline ==
    \/ InlineEscape
    \/ InlineCodePass
    \/ InlineBoldPass
    \/ InlineItalicPass
    \/ InlineMarkPass
    \/ InlineDelPass
    \/ InlineLinkPass

SpecInline == InitInline /\ [][NextInline]_vars

---------------------------------------------------------------------------
(* Markdown.parse as one function of its argument: the scan of the lines   *)
(* from line k on, and the string returned.                                *)

RECURSIVE ScanFrom(_, _)
ScanFrom(ls, k) ==
    IF k >= Len(ls) THEN <<>>
    ELSE LET line == ls[k + 1]
             kind == Kind(line)
         IN CASE kind = "hr" -> <<"<hr>">> \o ScanFrom(ls, k + 1)
              [] kind = "fence" ->
                    LET e == FenceEnd(ls, k + 1) IN
                    CodeBlock(ls, k + 1, e) \o ScanFrom(ls, e + 1)
              [] kind = "heading" -> HeadingBlock(line) \o ScanFrom(ls, k + 1)
              [] kind = "quote" ->
                    LET e == RunEnd(ls, k, "quote") IN
                    QuoteBlock(ls, k, e) \o ScanFrom(ls, e)
              [] kind = "ul" ->
                    LET e == RunEnd(ls, k, "ul") IN UlBlock(ls, k, e) \o ScanFrom(ls, e)
              [] kind = "ol" ->
                    LET e == RunEnd(ls, k, "ol") IN OlBlock(ls, k, e) \o ScanFrom(ls, e)
              [] kind = "blank" -> <<"<br>">> \o ScanFrom(ls, k + 1)
              [] OTHER -> ParagraphBlock(line) \o ScanFrom(ls, k + 1)

parse(v) ==
    IF ParseReturnsEarly(v) THEN <<>>
    ELSE Chars(ScanFrom(Split(v.v, "\n"), 0))

---------------------------------------------------------------------------
(* NotepadApp around the pipeline: notes are created, selected and edited, *)
(* the state is saved, and the preview is rendered in animation-frame      *)
(* callbacks.  Every handler and callback runs to its end before the next  *)
(* one starts; a render call is the steps of Markdown.parse and            *)
(* sanitizeHTML above.  result is preview.innerHTML.                       *)

NoteIds == {"n1", "n2"}

\* the values typed into the editor
EditorTexts ==
    { Join(<< <<"#", " ", "a">>, <<">", " ", "b">>, <<"-", " ", "c">>,
              <<"1", ".", " ", "d">> >>, <<"\n">>),
      Join(<< <<"-", "-", "-">>, <<>>, <<"*", "x", "*", " ", "<">>,
              <<Grave, Grave, Grave>>, <<"<", "script", ">">> >>, <<"\n">>) }

Note(id, content) == [id |-> id, title |-> <<>>, content |-> content]

IdsOf(notes) == {notes[k].id : k \in 1..Len(notes)}

\* notes.find(n => n.id === id), for an id of the list
Find(notes, id) == notes[CHOOSE k \in 1..Len(notes) : notes[k].id = id]

\* no handler, callback or render call is running
Idle == pc \in {"idle", "rendered"}

\* Store.saveToStorage: const { hasUnsavedChanges, ...persistable } = this.state
\* JSON.stringify of an array, parsed again: undefined becomes null
Stringified(ns) == [k \in 1..Len(ns) |-> IF ns[k] = JsUndefined THEN JsNull ELSE ns[k]]

\* the state serialized whole: const persistable = this.state
PersistableWhole(st) ==
    [notes |-> Stringified(st.notes), activeNoteId |-> st.activeNoteId,
     trash |-> Stringified(st.trash), ui |-> st.ui,
     hasUnsavedChanges |-> st.hasUnsavedChanges]

Persistable(st) ==
    [notes |-> Stringified(st.notes), activeNoteId |-> st.activeNoteId,
     trash |-> Stringified(st.trash), ui |-> st.ui]

\* Store.loadFromStorage() on the state st, raw the item found: nothing is
\* done without an item; the parsed properties replace those of the state,
\* and hasUnsavedChanges is set to false before they do
loadFromStorage(st, raw) ==
    IF raw = NoItem THEN st
    ELSE [notes |-> raw[1].notes, activeNoteId |-> raw[1].activeNoteId,
          trash |-> raw[1].trash, ui |-> raw[1].ui, hasUnsavedChanges |-> FALSE]

\* _init: the note active last becomes the active one when none is
Restored(st) ==
    IF st.ui.lastActiveNoteId # Null /\ st.activeNoteId = Null
    THEN [st EXCEPT !.activeNoteId = st.ui.lastActiveNoteId]
    ELSE st

\* this.setState({ lastSaved: ..., hasUnsavedChanges: false })
Saved(st) == [st EXCEPT !.hasUnsavedChanges = FALSE]

\* Store.saveToStorage() on the state st: the item is written and the state
\* marked saved, or setItem throws and the catch leaves both as they are
saveToStorage(st) ==
    IF quotaExceeded
    THEN /\ state' = st
         /\ UNCHANGED storage
    ELSE /\ storage' = <<Persistable(st)>>
         /\ state' = Saved(st)

TimerIds == {"t1", "t2", "t3"}

\* the 400 ms timeouts followed at once
MaxPending == 2

\* _updateSaveStatus(status): config[status] || config.saved
_updateSaveStatus(status) ==
    saveStatus' = IF status \in {"unsaved", "saving", "saved"} THEN status ELSE "saved"

\* the id setTimeout returns: one that no pending timeout has
NewTimer == CHOOSE t \in TimerIds : t \notin timeouts

\* the timeouts pending when no clearTimeout precedes the setTimeout
NotCleared(pending, held, fresh) == pending \cup {fresh}

\* clearTimeout(this._saveTimer); this._saveTimer = setTimeout(..., 800)
Rescheduled(pending, held, fresh) == (pending \ {held}) \cup {fresh}

\* _updatePreview(content): the frame requested before is cancelled
Requested(content) == [pending |-> TRUE, content |-> content]

\* _renderEditor for the state st: the preview is emptied when no note is
\* active, and a frame is requested for the active note's content otherwise
RenderEditor(st) ==
    IF st.activeNoteId \in IdsOf(st.notes)
    THEN /\ _renderTimer' = Requested(Find(st.notes, st.activeNoteId).content)
         /\ UNCHANGED result
    ELSE /\ result' = <<>>
         /\ UNCHANGED _renderTimer

_createNewNote ==
    /\ Idle
    /\ \E id \in NoteIds \ IdsOf(state.notes) :
          LET st == [state EXCEPT !.notes = <<Note(id, <<>>)>> \o @,
                                  !.activeNoteId = id,
                                  !.hasUnsavedChanges = TRUE]
          IN /\ saveToStorage(st)
             /\ RenderEditor(st)
    /\ UNCHANGED <<text, pc, lines, i, output, starts, html, result2, t_inline, _saveTimer,
                   saveVars, shellVars, trashVars, storeVars>>

_selectNote(noteId) ==
    /\ Idle
    /\ noteId \in IdsOf(state.notes)
    /\ state.activeNoteId # noteId
    /\ LET st == [state EXCEPT !.activeNoteId = noteId,
                               !.ui.lastActiveNoteId = noteId] IN
       /\ saveToStorage(st)
       /\ RenderEditor(st)
    /\ UNCHANGED <<text, pc, lines, i, output, starts, html, result2, t_inline, _saveTimer,
                   saveVars, shellVars, trashVars, storeVars>>

_onEditorInput(value) ==
    /\ Idle
    /\ state.activeNoteId \in IdsOf(state.notes)
    /\ TimerIds \ timeouts # {}
    /\ statusTimeouts < MaxPending
    /\ state' = [state EXCEPT
                   !.notes = [k \in 1..Len(@) |->
                                IF @[k].id = state.activeNoteId
                                THEN [@[k] EXCEPT !.content = value] ELSE @[k]],
                   !.hasUnsavedChanges = TRUE]
    /\ _renderTimer' = Requested(value)
    /\ _updateSaveStatus("unsaved")
    /\ timeouts' = Rescheduled(timeouts, _saveTimer, NewTimer)
    /\ _saveTimer' = NewTimer
    /\ UNCHANGED <<text, pc, lines, i, output, starts, html, result, result2, t_inline,
                   storage, quotaExceeded, trashVars, storeVars, statusTimeouts,
                   collapsed, zenMode, dialog, opened, invoked>>

\* the values typed into the title field
TitleTexts == {<<"T">>, <<>>}

_onTitleInput(value) ==
    /\ Idle
    /\ state.activeNoteId \in IdsOf(state.notes)
    /\ TimerIds \ timeouts # {}
    /\ statusTimeouts < MaxPending
    /\ state' = [state EXCEPT
                   !.notes = [k \in 1..Len(@) |->
                                IF @[k].id = state.activeNoteId
                                THEN [@[k] EXCEPT !.title = value] ELSE @[k]],
                   !.hasUnsavedChanges = TRUE]
    /\ _updateSaveStatus("unsaved")
    /\ timeouts' = Rescheduled(timeouts, _saveTimer, NewTimer)
    /\ _saveTimer' = NewTimer
    /\ UNCHANGED <<text, pc, lines, i, output, starts, html, result, result2, t_inline,
                   storage, _renderTimer, quotaExceeded, trashVars, storeVars,
                   statusTimeouts, collapsed, zenMode, dialog, opened, invoked>>

\* an auto-save timeout fires: _autoSave shows 'saving', saves, and sets the
\* 400 ms timeout that will show 'saved'
_autoSave ==
    /\ Idle
    /\ \E t \in timeouts : timeouts' = timeouts \ {t}
    /\ saveToStorage(state)
    /\ _updateSaveStatus("saving")
    /\ statusTimeouts' = statusTimeouts + 1
    /\ UNCHANGED <<text, pc, lines, i, output, starts, html, result, result2, t_inline,
                   _renderTimer, _saveTimer, quotaExceeded, trashVars, storeVars,
                   collapsed, zenMode, dialog, opened, invoked>>

\* Ctrl+S: clearTimeout(this._saveTimer) and _autoSave()
_saveNow ==
    /\ Idle
    /\ statusTimeouts < MaxPending
    /\ timeouts' = timeouts \ {_saveTimer}
    /\ saveToStorage(state)
    /\ _updateSaveStatus("saving")
    /\ statusTimeouts' = statusTimeouts + 1
    /\ UNCHANGED <<text, pc, lines, i, output, starts, html, result, result2, t_inline,
                   _renderTimer, _saveTimer, quotaExceeded, trashVars, storeVars,
                   collapsed, zenMode, dialog, opened, invoked>>

\* a 400 ms timeout of _autoSave fires: _updateSaveStatus('saved')
SavedTimeout ==
    /\ Idle
    /\ statusTimeouts > 0
    /\ statusTimeouts' = statusTimeouts - 1
    /\ _updateSaveStatus("saved")
    /\ UNCHANGED <<text, pc, lines, i, output, starts, html, result, result2, t_inline,
                   state, storage, _renderTimer, _saveTimer, saveVars, trashVars,
                   storeVars, collapsed, zenMode, dialog, opened, invoked>>

\* the animation frame fires: the callback calls Markdown.parse(content)
FrameCallback ==
    /\ Idle
    /\ _renderTimer.pending
    /\ text' = JsStr(_renderTimer.content)
    /\ pc' = "call"
    /\ _renderTimer' = NoFrame
    /\ UNCHANGED <<lines, i, output, starts, html, result, result2, t_inline, state,
                   storage, _saveTimer, saveVars, shellVars, trashVars, storeVars>>

\* the item found by Store.loadFromStorage at construction
StoredItems ==
    {NoItem} \cup {<<[notes |-> <<Note("n1", x)>>, activeNoteId |-> "n1", trash |-> <<>>,
                      ui |-> EmptyState.ui]>> : x \in EditorTexts}

\* constructor of NotepadApp: _init
InitApp ==
    /\ storage \in StoredItems
    /\ state = Restored(loadFromStorage(EmptyState, storage))
    /\ _renderTimer = IF storage = NoItem THEN NoFrame
                      ELSE Requested(storage[1].notes[1].content)
    /\ _saveTimer = Null
    /\ timeouts = {}
    /\ quotaExceeded = FALSE
    /\ TrashIdle
    /\ StoreIdle
    /\ ShellIdle
    /\ pc = "idle"
    /\ text = JsStr(<<>>)
    /\ lines = <<>>
    /\ i = 0
    /\ output = <<>>
    /\ starts = <<>>
    /\ html = JsStr(<<>>)
    /\ result = <<>>
    /\ result2 = <<>>
    /\ t_inline = <<>>

NextApp ==
    \/ _createNewNote
    \/ \E noteId \in NoteIds : _selectNote(noteId)
    \/ \E value \in EditorTexts : _onEditorInput(value)
    \/ _autoSave
    \/ SavedTimeout
    \/ FrameCallback
    \/ NextRender

SpecApp == InitApp /\ [][NextApp]_vars

---------------------------------------------------------------------------
(* The debounced auto-save: the handlers that change the notes and the     *)
(* ones that write them, with a storage that accepts the writes or is      *)
(* full.  A timeout that is pending fires once its 800 ms have passed.     *)

InitSave ==
    /\ storage \in StoredItems
    /\ quotaExceeded \in BOOLEAN
    /\ state = Restored(loadFromStorage(EmptyState, storage))
    /\ _renderTimer = IF storage = NoItem THEN NoFrame
                      ELSE Requested(storage[1].notes[1].content)
    /\ _saveTimer = Null
    /\ timeouts = {}
    /\ TrashIdle
    /\ StoreIdle
    /\ ShellIdle
    /\ pc = "idle"
    /\ text = JsStr(<<>>)
    /\ lines = <<>>
    /\ i = 0
    /\ output = <<>>
    /\ starts = <<>>
    /\ html = JsStr(<<>>)
    /\ result = <<>>
    /\ result2 = <<>>
    /\ t_inline = <<>>

NextSave ==
    \/ _createNewNote
    \/ \E noteId \in NoteIds : _selectNote(noteId)
    \/ \E value \in EditorTexts : _onEditorInput(value)
    \/ \E value \in TitleTexts : _onTitleInput(value)
    \/ _autoSave
    \/ _saveNow
    \/ SavedTimeout

SpecSave == InitSave /\ [][NextSave]_vars /\ WF_vars(_autoSave)

---------------------------------------------------------------------------
(* The trash.  _deleteCurrentNote opens the confirmation; its onConfirm    *)
(* moves the note to state.trash, shows a toast with an Undo button and    *)
(* sets the purge timeout.  Arrays are shared objects: getState(key)       *)
(* returns the array of the state itself, so push, pop and unshift change  *)
(* the state at once.  Ids are unique, so a note object is identified by   *)
(* its value.  The timeouts all wait 5000 ms and fire in the order they    *)
(* were set.  The handlers are followed up to the first uncaught error.    *)

MaxDeletes == 3

\* an array element that is a note object
IsNote(x) == DOMAIN x = {"id", "title", "content"}

\* array.filter(n => n.id !== id)
Without(ns, id) == SelectSeq(ns, LAMBDA n : n.id # id)

\* array.includes(note)
Includes(ns, note) == \E k \in 1..Len(ns) : ns[k] = note

\* the toast built by Toast.showUndo in the n-th confirmed deletion, of note
Toast(note, n) == [n |-> n, note |-> note, show |-> TRUE]

\* a timeout set in the n-th confirmed deletion
Timeout(kind, note, n) == [kind |-> kind, n |-> n, note |-> note]

\* toast.remove()
RemoveToast(ts, n) == SelectSeq(ts, LAMBDA t : t.n # n)

\* no handler is running and none has ended with an uncaught error
Running == Idle /\ ~thrown

\* the confirmation covers the page while it is open
Covered == modal.open

_deleteCurrentNote ==
    /\ Running
    /\ ~Covered
    /\ confirmed < MaxDeletes
    /\ state.activeNoteId # Null
    /\ modal' = [open |-> TRUE, activeId |-> state.activeNoteId,
                 note |-> IF state.activeNoteId \in IdsOf(state.notes)
                          THEN Find(state.notes, state.activeNoteId)
                          ELSE JsUndefined]
    /\ UNCHANGED <<text, pc, lines, i, output, starts, html, result, result2, t_inline,
                   state, storage, _renderTimer, _saveTimer, saveVars, shellVars, toasts, timers,
                   confirmed,
                   thrown, storeVars>>

\* click on the confirm button: this._onConfirm() and this.close()
onConfirm ==
    /\ Running
    /\ modal.open
    /\ LET notes  == Without(state.notes, modal.activeId)
           trash  == Append(state.trash, modal.note)
           nextId == IF Len(notes) > 0 THEN notes[1].id ELSE Null
           st     == [state EXCEPT !.notes = notes, !.trash = trash,
                                   !.activeNoteId = nextId, !.hasUnsavedChanges = TRUE]
           n      == confirmed + 1
       IN /\ saveToStorage(st)
          /\ RenderEditor(st)
          /\ toasts' = Append(toasts, Toast(modal.note, n))
          /\ timers' = timers \o <<Timeout("hide", modal.note, n),
                                    Timeout("purge", modal.note, n)>>
          /\ confirmed' = n
    /\ modal' = NoModal
    /\ UNCHANGED <<text, pc, lines, i, output, starts, html, result2, t_inline, _saveTimer,
                   saveVars, shellVars, thrown, storeVars>>

\* click on the cancel button, the close button or the backdrop: close()
onCancel ==
    /\ Running
    /\ modal.open
    /\ modal' = NoModal
    /\ UNCHANGED <<text, pc, lines, i, output, starts, html, result, result2, t_inline,
                   state, storage, _renderTimer, _saveTimer, saveVars, shellVars, toasts, timers,
                   confirmed,
                   thrown, storeVars>>

\* click on the Undo button of the toast of the n-th deletion: onUndo(), then
\* toast.remove().  On an empty trash pop() gives undefined, unshift puts it
\* into the notes, and restoredNote.id throws before anything else runs; so
\* it does when the element popped is undefined or null.
undoBtn_onclick(n) ==
    /\ Running
    /\ ~Covered
    /\ \E k \in 1..Len(toasts) : toasts[k].n = n
    /\ IF state.trash = <<>>
       THEN /\ state' = [state EXCEPT !.notes = <<JsUndefined>> \o @]
            /\ thrown' = TRUE
            /\ UNCHANGED <<storage, _renderTimer, result, toasts>>
       ELSE IF ~IsNote(state.trash[Len(state.trash)])
       THEN /\ state' = [state EXCEPT !.notes = <<state.trash[Len(state.trash)]>> \o @,
                                      !.trash = SubSeq(@, 1, Len(@) - 1)]
            /\ thrown' = TRUE
            /\ UNCHANGED <<storage, _renderTimer, result, toasts>>
       ELSE LET restoredNote == state.trash[Len(state.trash)]
                st == [state EXCEPT !.notes = <<restoredNote>> \o @,
                                    !.trash = SubSeq(@, 1, Len(@) - 1),
                                    !.activeNoteId = restoredNote.id,
                                    !.hasUnsavedChanges = TRUE]
            IN /\ saveToStorage(st)
               /\ RenderEditor(st)
               /\ toasts' = RemoveToast(toasts, n)
               /\ UNCHANGED thrown
    /\ UNCHANGED <<text, pc, lines, i, output, starts, html, result2, t_inline, _saveTimer,
                   saveVars, shellVars, modal, timers, confirmed, storeVars>>

\* the timeout of showUndo fires: a toast still in the document starts to
\* fade and is removed when its transition ends
ToastTimeout ==
    /\ Running
    /\ timers # <<>>
    /\ Head(timers).kind = "hide"
    /\ toasts' = [k \in 1..Len(toasts) |->
                    IF toasts[k].n = Head(timers).n
                    THEN [toasts[k] EXCEPT !.show = FALSE] ELSE toasts[k]]
    /\ timers' = Tail(timers)
    /\ UNCHANGED <<text, pc, lines, i, output, starts, html, result, result2, t_inline,
                   state, storage, _renderTimer, _saveTimer, saveVars, shellVars, modal,
                   confirmed, thrown,
                   storeVars>>

\* transitionend on a fading toast: toast.remove()
ToastTransitionEnd(n) ==
    /\ Running
    /\ \E k \in 1..Len(toasts) : toasts[k].n = n /\ ~toasts[k].show
    /\ toasts' = RemoveToast(toasts, n)
    /\ UNCHANGED <<text, pc, lines, i, output, starts, html, result, result2, t_inline,
                   state, storage, _renderTimer, _saveTimer, saveVars, shellVars, modal, timers,
                   confirmed,
                   thrown, storeVars>>

\* the purge timeout of a deletion fires; n.id !== note.id throws in the
\* filter when the note deleted or an element of the trash is no object
PurgeTimeout ==
    /\ Running
    /\ timers # <<>>
    /\ Head(timers).kind = "purge"
    /\ IF ~Includes(state.trash, Head(timers).note)
       THEN UNCHANGED <<state, storage, thrown>>
       ELSE IF \E k \in 1..Len(state.trash) : ~IsNote(state.trash[k])
       THEN /\ thrown' = TRUE
            /\ UNCHANGED <<state, storage>>
       ELSE LET st == [state EXCEPT !.trash = Without(@, Head(timers).note.id)]
            IN /\ saveToStorage(st)
               /\ UNCHANGED thrown
    /\ timers' = Tail(timers)
    /\ UNCHANGED <<text, pc, lines, i, output, starts, html, result, result2, t_inline,
                   _renderTimer, _saveTimer, saveVars, shellVars, modal, toasts,
                   confirmed, storeVars>>

\* the notes loaded at construction
TrashNotes == <<Note("n1", <<>>), Note("n2", <<"a">>)>>

InitTrash ==
    /\ state = [EmptyState EXCEPT !.notes = TrashNotes, !.activeNoteId = "n1"]
    /\ storage = <<Persistable(state)>>
    /\ _renderTimer = Requested(<<>>)
    /\ _saveTimer = Null
    /\ timeouts = {}
    /\ quotaExceeded = FALSE
    /\ TrashIdle
    /\ StoreIdle
    /\ ShellIdle
    /\ pc = "idle"
    /\ text = JsStr(<<>>)
    /\ lines = <<>>
    /\ i = 0
    /\ output = <<>>
    /\ starts = <<>>
    /\ html = JsStr(<<>>)
    /\ result = <<>>
    /\ result2 = <<>>
    /\ t_inline = <<>>

NextTrash ==
    \/ \E noteId \in NoteIds : Running /\ ~Covered /\ _selectNote(noteId)
    \/ _deleteCurrentNote
    \/ onConfirm
    \/ onCancel
    \/ \E n \in 1..MaxDeletes : undoBtn_onclick(n)
    \/ ToastTimeout
    \/ \E n \in 1..MaxDeletes : ToastTransitionEnd(n)
    \/ PurgeTimeout

SpecTrash == InitTrash /\ [][NextTrash]_vars

---------------------------------------------------------------------------
(* NotepadStore as a publisher: subscribe, the cancel functions it returns *)
(* and setState, called by event handlers and by the subscribed callbacks  *)
(* themselves.  this.subscribers is an array object: push changes it in    *)
(* place, also under a for-of loop that is walking it, while the filter of *)
(* a cancel function assigns a new array and leaves the loops in progress  *)
(* on the old one.  A callback does at most one call of the store and then *)
(* returns or throws.  Each subscription passes a function of its own.     *)

\* the calls of setState made from inside a callback that may be in progress
MaxNesting == 1

Callbacks == {"f", "g"}

\* the arguments of setState
Updates == {[activeNoteId |-> "n1"], [hasUnsavedChanges |-> FALSE]}

renderVars == <<text, pc, lines, i, output, starts, html, result, result2, t_inline>>

\* Object.assign(this.state, updates)
Assign(st, u) ==
    [st EXCEPT
       !.activeNoteId = IF "activeNoteId" \in DOMAIN u THEN u.activeNoteId ELSE @,
       !.hasUnsavedChanges =
           IF "hasUnsavedChanges" \in DOMAIN u THEN u.hasUnsavedChanges ELSE @]

\* a call of _notifySubscribers at its start: the snapshot taken, the loop
\* before the first element of this.subscribers; expected, invoked and
\* caught are history
Frame(st, u) ==
    [live |-> TRUE, subs |-> <<>>, idx |-> 0, snapshot |-> st, updates |-> u,
     expected |-> subscribers, invoked |-> <<>>, caught |-> FALSE]

\* the array the loop of frame f walks
Array(f) == IF f.live THEN subscribers ELSE f.subs

\* setState notifying only when an update differs from the value held
NotifiedOnChange(fs, st, u) ==
    IF Assign(st, u) = st THEN fs ELSE <<Frame(Assign(st, u), u)>> \o fs

\* setState(updates) on the state st: the calls in progress after
\* this._notifySubscribers() has taken its snapshot
Notified(fs, st, u) == <<Frame(Assign(st, u), u)>> \o fs

\* this.subscribers = this.subscribers.filter(...): the loops in progress
\* keep the array they started on
Detached(fs) ==
    [k \in 1..Len(fs) |->
        IF fs[k].live THEN [fs[k] EXCEPT !.live = FALSE, !.subs = subscribers]
        ELSE fs[k]]

\* the loop of the innermost call has a next element
Notifying ==
    /\ Idle
    /\ frames # <<>>
    /\ Head(frames).idx < Len(Array(Head(frames)))

\* the callback the loop of the innermost call invokes next
NextCallback == Array(Head(frames))[Head(frames).idx + 1]

\* callback(snapshot) entered, inside try; throws when it ends by a throw
Entered(fs, throws) ==
    <<[Head(fs) EXCEPT !.idx = @ + 1,
                       !.invoked = Append(@, NextCallback),
                       !.caught = @ \/ throws]>> \o Tail(fs)

\* Store.subscribe(callback), called by an event handler
subscribe(callback) ==
    /\ Idle
    /\ frames = <<>>
    /\ \A k \in 1..Len(subscribers) : subscribers[k] # callback
    /\ subscribers' = Append(subscribers, callback)
    /\ cancels' = cancels \cup {callback}
    /\ cancelled' = cancelled \ {callback}
    /\ UNCHANGED <<renderVars, state, storage, _renderTimer, _saveTimer, saveVars, shellVars,
                   trashVars,
                   frames>>

\* the function returned by subscribe(callback), called by an event handler
cancel(callback) ==
    /\ Idle
    /\ frames = <<>>
    /\ callback \in cancels
    /\ subscribers' = SelectSeq(subscribers, LAMBDA c : c # callback)
    /\ cancelled' = cancelled \cup {callback}
    /\ UNCHANGED <<renderVars, state, storage, _renderTimer, _saveTimer, saveVars, shellVars,
                   trashVars, frames,
                   cancels>>

\* Store.setState(updates), called by an event handler
setState(updates) ==
    /\ Idle
    /\ frames = <<>>
    /\ state' = Assign(state, updates)
    /\ frames' = Notified(frames, state, updates)
    /\ UNCHANGED <<renderVars, storage, _renderTimer, _saveTimer, saveVars, shellVars, trashVars,
                   subscribers,
                   cancels, cancelled>>

\* the callback invoked returns
CallbackReturns ==
    /\ Notifying
    /\ frames' = Entered(frames, FALSE)
    /\ UNCHANGED <<renderVars, state, storage, _renderTimer, _saveTimer, saveVars, shellVars,
                   trashVars,
                   subscribers, cancels, cancelled>>

\* the callback invoked throws: catch (error) { console.error(...) }
CallbackThrows ==
    /\ Notifying
    /\ frames' = Entered(frames, TRUE)
    /\ UNCHANGED <<renderVars, state, storage, _renderTimer, _saveTimer, saveVars, shellVars,
                   trashVars,
                   subscribers, cancels, cancelled>>

\* the callback invoked calls the cancel function of callback
CallbackCancels(callback) ==
    /\ Notifying
    /\ callback \in cancels
    /\ subscribers' = SelectSeq(subscribers, LAMBDA c : c # callback)
    /\ frames' = Detached(Entered(frames, FALSE))
    /\ cancelled' = cancelled \cup {callback}
    /\ UNCHANGED <<renderVars, state, storage, _renderTimer, _saveTimer, saveVars, shellVars,
                   trashVars, cancels>>

\* the callback invoked calls Store.subscribe(callback)
CallbackSubscribes(callback) ==
    /\ Notifying
    /\ \A k \in 1..Len(subscribers) : subscribers[k] # callback
    /\ subscribers' = Append(subscribers, callback)
    /\ frames' = Entered(frames, FALSE)
    /\ cancels' = cancels \cup {callback}
    /\ cancelled' = cancelled \ {callback}
    /\ UNCHANGED <<renderVars, state, storage, _renderTimer, _saveTimer, saveVars, shellVars,
                   trashVars>>

\* the callback invoked calls Store.setState(updates)
CallbackSetsState(updates) ==
    /\ Notifying
    /\ Len(frames) <= MaxNesting
    /\ state' = Assign(state, updates)
    /\ frames' = Notified(Entered(frames, FALSE), state, updates)
    /\ UNCHANGED <<renderVars, storage, _renderTimer, _saveTimer, saveVars, shellVars, trashVars,
                   subscribers,
                   cancels, cancelled>>

\* the loop of the innermost call is past the last element: the call returns
NotifyReturns ==
    /\ Idle
    /\ frames # <<>>
    /\ Head(frames).idx >= Len(Array(Head(frames)))
    /\ frames' = Tail(frames)
    /\ UNCHANGED <<renderVars, state, storage, _renderTimer, _saveTimer, saveVars, shellVars,
                   trashVars,
                   subscribers, cancels, cancelled>>

InitStore ==
    /\ AppIdle
    /\ pc = "idle"
    /\ text = JsStr(<<>>)
    /\ lines = <<>>
    /\ i = 0
    /\ output = <<>>
    /\ starts = <<>>
    /\ html = JsStr(<<>>)
    /\ result = <<>>
    /\ result2 = <<>>
    /\ t_inline = <<>>

NextStore ==
    \/ \E callback \in Callbacks : subscribe(callback)
    \/ \E callback \in Callbacks : cancel(callback)
    \/ \E updates \in Updates : setState(updates)
    \/ CallbackReturns
    \/ CallbackThrows
    \/ \E callback \in Callbacks : CallbackCancels(callback)
    \/ \E callback \in Callbacks : CallbackSubscribes(callback)
    \/ \E updates \in Updates : CallbackSetsState(updates)
    \/ NotifyReturns

SpecStore == InitStore /\ [][NextStore]_vars

---------------------------------------------------------------------------
(* The session: the page is left and loaded again over what was saved, and *)
(* the sidebar and Zen Mode are toggled.  A new document has no timeout    *)
(* pending, no toast and no confirmation open.  The 5000 ms timeouts fire  *)
(* while the page stays loaded.                                            *)

\* beforeunload: the state is saved when it has unsaved changes
Unloaded ==
    IF state.hasUnsavedChanges /\ ~quotaExceeded THEN <<Persistable(state)>> ELSE storage

\* the page is loaded again: beforeunload, then the constructors and _init
_init ==
    /\ Running
    /\ LET st == Restored(loadFromStorage(EmptyState, Unloaded)) IN
       /\ storage' = Unloaded
       /\ state' = st
       /\ collapsed' = st.ui.sidebarCollapsed
       /\ _renderTimer' = IF st.activeNoteId \in IdsOf(st.notes)
                          THEN Requested(Find(st.notes, st.activeNoteId).content)
                          ELSE NoFrame
    /\ result' = <<>>
    /\ zenMode' = FALSE
    /\ _updateSaveStatus("saved")
    /\ statusTimeouts' = 0
    /\ timeouts' = {}
    /\ _saveTimer' = Null
    /\ modal' = NoModal
    /\ toasts' = <<>>
    /\ timers' = <<>>
    /\ UNCHANGED <<text, pc, lines, i, output, starts, html, result2, t_inline,
                   quotaExceeded, confirmed, thrown, storeVars, dialog, opened, invoked>>

\* document.body.classList.toggle('zen-mode'): the sidebar is collapsed on
\* entering and the class removed on leaving
_toggleZenMode ==
    /\ Running
    /\ zenMode' = ~zenMode
    /\ collapsed' = zenMode'
    /\ UNCHANGED <<renderVars, state, storage, _renderTimer, _saveTimer, saveVars,
                   trashVars, storeVars, saveStatus, statusTimeouts, dialog, opened,
                   invoked>>

\* sidebar.classList.toggle('collapsed'); ui.sidebarCollapsed = isCollapsed
_toggleSidebar ==
    /\ Running
    /\ collapsed' = ~collapsed
    /\ saveToStorage([state EXCEPT !.ui.sidebarCollapsed = ~collapsed])
    /\ UNCHANGED <<renderVars, _renderTimer, _saveTimer, saveVars, trashVars, storeVars,
                   saveStatus, statusTimeouts, zenMode, dialog, opened, invoked>>

InitSession == InitTrash

\* a note is created once no toast and no timeout names a deleted note, so
\* that its id is new
NextSession ==
    \/ NextTrash
    \/ _init
    \/ _toggleZenMode
    \/ _toggleSidebar
    \/ Running /\ ~Covered /\ toasts = <<>> /\ timers = <<>> /\ state.trash = <<>>
          /\ _createNewNote

SpecSession ==
    InitSession /\ [][NextSession]_vars /\ WF_vars(ToastTimeout) /\ WF_vars(PurgeTimeout)

---------------------------------------------------------------------------
(* The preview among edits, selections and deletions: the handlers that    *)
(* call _renderEditor or _updatePreview, and the animation-frame callbacks *)
(* that write the preview.  One deletion is followed.                      *)

NextPreview ==
    \/ ~Covered /\ _createNewNote
    \/ \E noteId \in NoteIds : ~Covered /\ _selectNote(noteId)
    \/ \E value \in EditorTexts : ~Covered /\ _onEditorInput(value)
    \/ toasts = <<>> /\ _deleteCurrentNote
    \/ onConfirm
    \/ onCancel
    \/ FrameCallback
    \/ NextRender

SpecPreview == InitApp /\ [][NextPreview]_vars

---------------------------------------------------------------------------
(* Saving and loading: the handlers that save, and the page loaded again   *)
(* over the stored item.  The item found first is one that saveToStorage   *)
(* wrote, or one that holds hasUnsavedChanges as well.                     *)

\* stored items that hold the flag, as the whole state serialized would
FlaggedItems ==
    {<<[notes |-> <<Note("n1", x)>>, activeNoteId |-> "n1", trash |-> <<>>,
        ui |-> EmptyState.ui, hasUnsavedChanges |-> TRUE]>> : x \in EditorTexts}

InitReload ==
    /\ storage \in StoredItems \cup FlaggedItems
    /\ quotaExceeded \in BOOLEAN
    /\ state = Restored(loadFromStorage(EmptyState, storage))
    /\ _renderTimer = IF storage = NoItem THEN NoFrame
                      ELSE Requested(storage[1].notes[1].content)
    /\ _saveTimer = Null
    /\ timeouts = {}
    /\ TrashIdle
    /\ StoreIdle
    /\ ShellIdle
    /\ pc = "idle"
    /\ text = JsStr(<<>>)
    /\ lines = <<>>
    /\ i = 0
    /\ output = <<>>
    /\ starts = <<>>
    /\ html = JsStr(<<>>)
    /\ result = <<>>
    /\ result2 = <<>>
    /\ t_inline = <<>>

NextReload ==
    \/ NextSave
    \/ _init

SpecReload == InitReload /\ [][NextReload]_vars

---------------------------------------------------------------------------
(* ModalManager: confirm(options) keeps the two callbacks and shows the    *)
(* dialog; the confirm button and the three ways to dismiss call them.     *)
(* The callbacks of the d-th call of confirm are Callback(d, "onConfirm")  *)
(* and Callback(d, "onCancel"); an option left out is undefined.           *)

MaxDialogs == 3

\* the options of a call: which callbacks are passed
DialogOptions == [onConfirm : BOOLEAN, onCancel : BOOLEAN]

Callback(d, name) == [d |-> d, name |-> name]

\* if (callback): neither null nor undefined
Given(callback) == callback \notin {JsNull, JsUndefined}

\* if (callback) callback()
Invoke(callback) == IF Given(callback) THEN <<callback>> ELSE <<>>

\* Modal.confirm({ onConfirm, onCancel }), the d-th call
confirm(options) ==
    /\ Len(opened) < MaxDialogs
    /\ LET d == Len(opened) + 1 IN
       dialog' = [active |-> TRUE,
                  _onConfirm |-> IF options.onConfirm THEN Callback(d, "onConfirm")
                                 ELSE JsUndefined,
                  _onCancel |-> IF options.onCancel THEN Callback(d, "onCancel")
                                ELSE JsUndefined]
    /\ opened' = Append(opened, [onConfirm |-> options.onConfirm,
                                 onCancel |-> options.onCancel, dismissed |-> FALSE])
    /\ UNCHANGED <<renderVars, state, storage, _renderTimer, _saveTimer, saveVars,
                   trashVars, storeVars, saveStatus, statusTimeouts, collapsed, zenMode,
                   invoked>>

\* the dialog shown is left by one of its buttons
Dismissed == [opened EXCEPT ![Len(opened)].dismissed = TRUE]

\* close(): if (this._onCancel) this._onCancel(); the class and both fields reset
close(calls) ==
    /\ invoked' = calls \o Invoke(dialog._onCancel)
    /\ dialog' = NoDialog

\* click on the confirm button: if (this._onConfirm) this._onConfirm(); this.close()
confirmBtn_onclick ==
    /\ dialog.active
    /\ close(invoked \o Invoke(dialog._onConfirm))
    /\ opened' = Dismissed
    /\ UNCHANGED <<renderVars, state, storage, _renderTimer, _saveTimer, saveVars,
                   trashVars, storeVars, saveStatus, statusTimeouts, collapsed, zenMode>>

\* click on the cancel button, on the close button or on the backdrop: close()
cancelBtn_onclick ==
    /\ dialog.active
    /\ close(invoked)
    /\ opened' = Dismissed
    /\ UNCHANGED <<renderVars, state, storage, _renderTimer, _saveTimer, saveVars,
                   trashVars, storeVars, saveStatus, statusTimeouts, collapsed, zenMode>>

InitModal == InitStore

NextModal ==
    \/ \E options \in DialogOptions : confirm(options)
    \/ confirmBtn_onclick
    \/ cancelBtn_onclick

SpecModal == InitModal /\ [][NextModal]_vars

---------------------------------------------------------------------------
(* The properties checked.                                                 *)

Elements(ns) == {ns[k] : k \in {j \in 1..Len(ns) : IsElement(ns[j])}}

AttrsOf(n) == {n.attrs[k] : k \in 1..Len(n.attrs)}

\* a value that names the javascript: scheme once surrounding white space is
\* trimmed, in any letter case
JavascriptRef(value) ==
    LET t == Trim(value) IN t # <<>> /\ Lower(t[1]) = "javascript:"

NoDenyListed(ns) == \A n \in Elements(ns) : n.name \notin DenyList

NoHandlerAttr(ns) == \A n \in Elements(ns) : \A a \in AttrsOf(n) : ~StartsWithOn(a.name)

NoJavascriptRef(ns) ==
    \A n \in Elements(ns) : \A a \in AttrsOf(n) :
        a.name \in {"href", "src"} => ~JavascriptRef(a.value)

Sanitized == pc \in {"san_returned", "san_again"}

\* C1: the rendered result sanitizeHTML(Markdown.parse(text)) holds no script
\* element, no attribute named on*, and no href or src that names the
\* javascript: scheme.
C1_RenderedIsInert ==
    pc = "rendered" =>
        LET tree == ParseFragment(result) IN
        /\ \A n \in Elements(tree) : n.name # "script"
        /\ NoHandlerAttr(tree)
        /\ NoJavascriptRef(tree)

\* C2: the tree returned by sanitizeHTML holds no element of the deny list at
\* any depth.
C2_NoDenyListedElement == Sanitized => NoDenyListed(ParseFragment(result))

\* the attribute lists of the elements of a tree, in document order
RECURSIVE ElementAttrs(_)
ElementAttrs(ns) ==
    IF ns = <<>> THEN <<>>
    ELSE (IF IsElement(Head(ns)) THEN <<Head(ns).attrs>> ELSE <<>>)
           \o ElementAttrs(Tail(ns))

\* the attributes no rule of the sanitizer removes: not named on*, and not an
\* href or src that names the javascript: scheme
Others(attrs) ==
    SelectSeq(attrs, LAMBDA a : /\ ~StartsWithOn(a.name)
                                /\ ~(a.name \in {"href", "src"} /\ JavascriptRef(a.value)))

\* C3: every element that remains in sanitizeHTML(x) carries no attribute
\* whose name begins with "on", and keeps all its other attributes (those
\* that the javascript: rule does not remove either).
C3_HandlersRemovedOthersKept ==
    (Sanitized /\ html.t = "string") =>
        LET before == ElementAttrs(RemoveDangerous(ParseFragment(html.v)))
            after  == ElementAttrs(ParseFragment(result))
        IN /\ NoHandlerAttr(ParseFragment(result))
           /\ Len(after) = Len(before)
           /\ \A k \in 1..Len(after) : Others(after[k]) = Others(before[k])

\* C4: sanitizeHTML removes every href and every src whose trimmed value
\* starts with javascript: in any letter case.
C4_NoJavascriptHrefOrSrc == Sanitized => NoJavascriptRef(ParseFragment(result))

BenignTags ==
    {"h1", "h2", "h3", "h4", "h5", "h6", "p", "ul", "ol", "li", "blockquote",
     "pre", "code", "strong", "em", "hr", "br", "a"}

BenignAttr(a) ==
    \/ a.name \in {"target", "rel"}
    \/ a.name = "href" /\ a.value # <<>> /\ Lower(a.value[1]) \in LinkSchemes

\* a well-formed fragment of benign elements only
IsBenign(v) ==
    /\ v.t = "string"
    /\ LET tree == ParseFragment(v.v) IN
       /\ Serialize(tree) = v.v
       /\ \A n \in Elements(tree) :
            n.name \in BenignTags /\ \A a \in AttrsOf(n) : BenignAttr(a)

C8_EmptyRendersEmpty ==
    (text = JsStr(<<>>) /\ pc # "call") =>
        /\ output = <<>>
        /\ pc \in {"parsed", "rendered"}
        /\ html = JsStr(<<>>)
        /\ result = <<>>

C8_Witness == text = JsStr(<<>>) /\ pc = "rendered"

\* a line that matches none of the block constructs
Unrecognized(line) ==
    /\ ~IsHr(line)
    /\ ~IsFence(line)
    /\ HeadingLevel(line) = 0
    /\ ~IsQuote(line)
    /\ ~IsUl(line)
    /\ ~IsOl(line)
    /\ ~IsBlank(line)

\* the number of fence lines among lines 0 .. k - 1
FencesBefore(ls, k) == Cardinality({j \in 1..k : IsFence(ls[j])})

\* line k lies inside a code block: an odd number of fence lines precede it
InsideCode(ls, k) == FencesBefore(ls, k) % 2 = 1

\* every line that no block construct matches (the lines between two fences
\* belong to the fence) is one entry of output: a paragraph holding the
\* line's inline-formatted text
ParagraphFallback ==
    (pc \in {"parsed", "rendered"} /\ text.t = "string" /\ text.v # <<>>) =>
        \A k \in 0..(Len(lines) - 1) :
            (Unrecognized(lines[k + 1]) /\ ~InsideCode(lines, k)) =>
                \E j \in 1..Len(output) :
                    /\ starts[j] = k
                    /\ output[j] = <<"<p>">> \o _inline(lines[k + 1]) \o <<"</p>">>

\* C9: parse is total: every step of the scan moves i forward until the call
\* returns a string, and every line that matches no block construct is
\* emitted as a paragraph holding that line's inline-formatted text.
C9_TotalAndParagraphFallback ==
    /\ [][pc = "scan" => (pc' = "scan" /\ i' > i) \/ pc' = "parsed"]_vars
    /\ [](pc = "scan" => i <= Len(lines) + 1)
    /\ [](pc = "parsed" => html.t = "string" /\ html.v \in Seq(STRING))
    /\ []ParagraphFallback

C9_Witness ==
    /\ pc = "parsed"
    /\ \E k \in 1..Len(lines) :
          /\ Unrecognized(lines[k])
          /\ ~InsideCode(lines, k - 1)
          /\ _inline(lines[k]) # lines[k]

HtmlSyntaxChars == {"<", ">", "&", "\"", "'"}

Has(s, c) == \E k \in 1..Len(s) : s[k] = c

\* a text that is one link candidate: it opens with "[" and holds no ")"
\* before its last symbol
LinkCandidate(v) ==
    /\ v # <<>>
    /\ v[1] = "["
    /\ \A k \in 1..(Len(v) - 1) : v[k] # ")"

\* [label](url): a non-empty label, "(" right after "]", a closing ")"
WellFormedLink(v) ==
    LET rb == IndexOf(v, <<"]">>, 2) IN
    /\ rb >= 3
    /\ rb + 3 <= Len(v)
    /\ v[rb + 1] = "("
    /\ v[Len(v)] = ")"

\* the first symbol of the url
SchemeOf(v) == v[IndexOf(v, <<"]">>, 2) + 2]

NoOpenerPolicy == <<"noopener", " ", "noreferrer">>

Returned == pc \in {"parsed", "rendered"} /\ text.t = "string" /\ text.v # <<>>

\* the entries of output that are code blocks: those whose first line is a fence
FenceEntries == {j \in 1..Len(output) : IsFence(lines[starts[j] + 1])}

\* the first fence line after line k, or the line past the last one
NextFence(ls, k) ==
    LET later == {m \in (k + 1)..Len(ls) : IsFence(ls[m])} IN
    IF later = {} THEN Len(ls) + 1
    ELSE CHOOSE m \in later : \A n \in later : m <= n

\* C13: every line between an opening fence and the next fence is one line of
\* the code block, in order, as its escaped text only: no inline formatting,
\* and no line inside starts a block of its own.
C13_FencedLinesVerbatim ==
    Returned =>
        \A j \in FenceEntries :
            LET k == starts[j] + 1
                m == NextFence(lines, k)
            IN /\ output[j] =
                    <<"<pre>", "<code>">>
                      \o Join([n \in 1..(m - k - 1) |-> escapeHTML(JsStr(lines[k + n]))],
                              <<"\n">>)
                      \o <<"</code>", "</pre>">>
               /\ \A j2 \in 1..Len(output) : ~(k < starts[j2] + 1 /\ starts[j2] + 1 <= m)

C13_Witness ==
    /\ pc = "parsed"
    /\ \E j \in FenceEntries :
          LET k == starts[j] + 1 IN
          /\ NextFence(lines, k) = k + 2
          /\ k + 2 <= Len(lines)
          /\ IsUl(lines[k + 1])
          /\ _inline(lines[k + 1]) # escapeHTML(JsStr(lines[k + 1]))

\* the tail of s of the length of tail is tail
EndsWith(s, tail) ==
    Len(tail) <= Len(s) /\ SubSeq(s, Len(s) - Len(tail) + 1, Len(s)) = tail

\* the opening fences that no later fence line closes
Unclosed == {k \in 1..Len(lines) : IsFence(lines[k]) /\ ~InsideCode(lines, k - 1)
                                     /\ NextFence(lines, k) > Len(lines)}

\* C14: when an opening fence has no closing fence, all the remaining lines
\* are the content of one code block, which is the last block emitted, and
\* the scan ends past the last line.
C14_UnclosedFenceRunsToEnd ==
    (Returned /\ Unclosed # {}) =>
        \E j \in 1..Len(output) :
            LET k == starts[j] + 1 IN
            /\ k \in Unclosed
            /\ j = Len(output)
            /\ output[j] =
                 <<"<pre>", "<code>">>
                   \o Join([n \in 1..(Len(lines) - k) |-> escapeHTML(JsStr(lines[k + n]))],
                           <<"\n">>)
                   \o <<"</code>", "</pre>">>
            /\ i = Len(lines) + 1
            /\ EndsWith(html.v, Chars(output[j]))

C14_Witness ==
    /\ pc = "parsed"
    /\ \E k \in Unclosed : k + 2 = Len(lines)

IsListLine(line, kind) == IF kind = "ul" THEN IsUl(line) ELSE IsOl(line)

\* the maximal runs <<a, b>> of consecutive list lines of one kind outside
\* code blocks: lines a .. b
ListRuns(kind) ==
    {r \in (1..Len(lines)) \X (1..Len(lines)) :
        /\ r[1] <= r[2]
        /\ \A k \in r[1]..r[2] : IsListLine(lines[k], kind)
        /\ ~InsideCode(lines, r[1] - 1)
        /\ r[1] = 1 \/ ~IsListLine(lines[r[1] - 1], kind)
        /\ r[2] = Len(lines) \/ ~IsListLine(lines[r[2] + 1], kind)}

\* the text of a list line after its marker
ItemText(line, kind) ==
    IF kind = "ul" THEN SubSeq(line, 3, Len(line))
    ELSE SubSeq(line, OlPrefix(line) + 1, Len(line))

ListOf(kind, a, b) ==
    <<"<" \o kind \o ">">>
      \o Cat([n \in 1..(b - a + 1) |->
                <<"<li>">> \o _inline(ItemText(lines[a + n - 1], kind)) \o <<"</li>">>])
      \o <<"</" \o kind \o ">">>

\* C15: each maximal run of n consecutive list lines of one kind is one list
\* element of that kind with n items in line order: one entry of output
\* starts at the run's first line and none at its other lines.
C15_OneListPerRun ==
    Returned =>
        \A kind \in {"ul", "ol"} : \A r \in ListRuns(kind) :
            /\ \E j \in 1..Len(output) :
                  starts[j] = r[1] - 1 /\ output[j] = ListOf(kind, r[1], r[2])
            /\ \A j \in 1..Len(output) : ~(r[1] <= starts[j] /\ starts[j] < r[2])

C15_Witness ==
    /\ pc = "parsed"
    /\ Len(lines) = 3
    /\ \E r \in ListRuns("ul") :
          r[2] = r[1] + 1 /\ lines[r[1]][1] # lines[r[2]][1]
    /\ \E r \in ListRuns("ol") : TRUE

Contains(s, piece) == \E k \in 1..(Len(s) + 1) : piece = <<>> \/ StartsAt(s, piece, k)

\* the lines of entry j of output: from its first line to the line before the
\* next entry's first line (line indices from 0)
RangeOf(j) ==
    starts[j]..((IF j < Len(starts) THEN starts[j + 1] ELSE Len(lines)) - 1)

\* line m is part of the block of entry j: a delimiter of the code block or a
\* line of its content, a line of the group, or the block's only line
Belongs(m, j) ==
    LET line  == lines[m + 1]
        first == lines[starts[j] + 1]
        last  == CHOOSE n \in RangeOf(j) : \A n2 \in RangeOf(j) : n2 <= n
        block == output[j]
    IN CASE IsHr(first) -> m = starts[j] /\ last = m /\ block = <<"<hr>">>
         [] IsFence(first) ->
                \/ m = starts[j]
                \/ m = last /\ IsFence(line)
                \/ ~IsFence(line) /\ Contains(block, escapeHTML(JsStr(line)))
         [] HeadingLevel(first) > 0 ->
                /\ last = m
                /\ Contains(block, _inline(SubSeq(line, HeadingLevel(line) + 2, Len(line))))
         [] IsQuote(first) ->
                IsQuote(line) /\ Contains(block, _inline(SubSeq(line, 3, Len(line))))
         [] IsUl(first) -> IsUl(line) /\ Contains(block, _inline(ItemText(line, "ul")))
         [] IsOl(first) -> IsOl(line) /\ Contains(block, _inline(ItemText(line, "ol")))
         [] IsBlank(first) -> last = m /\ block = <<"<br>">>
         [] OTHER -> last = m /\ Contains(block, _inline(line))

Increasing(s) == \A j \in 1..(Len(s) - 1) : s[j] < s[j + 1]

\* C16: the scan of N lines ends with i at or past N; the entries of output
\* start at increasing lines from line 0 and every line 0 .. N - 1 is part of
\* the one entry whose range holds it; the string returned is the entries in
\* that order.
C16_EveryLineConsumedOnce ==
    /\ pc = "scan" =>
        /\ Increasing(starts)
        /\ Len(starts) = Len(output)
        /\ IF starts = <<>> THEN i = 0 ELSE starts[1] = 0 /\ starts[Len(starts)] < i
    /\ Returned =>
        /\ i >= Len(lines)
        /\ Increasing(starts)
        /\ Len(starts) = Len(output)
        /\ starts[1] = 0
        /\ \A j \in 1..Len(output) : \A m \in RangeOf(j) : Belongs(m, j)
        /\ html.v = Chars(Cat(output))

C16_Witness ==
    /\ pc = "parsed"
    /\ Len(lines) = 3
    /\ Len(output) = 2
    /\ starts = <<0, 2>>

\* a text of the form **x** with x not empty, and its x
BoldText(v) ==
    /\ Len(v) >= 5
    /\ SubSeq(v, 1, 2) = <<"*", "*">>
    /\ SubSeq(v, Len(v) - 1, Len(v)) = <<"*", "*">>

Inner(v) == SubSeq(v, 3, Len(v) - 2)

\* **x** rendered as x wrapped in one strong element
WrappedInStrong ==
    t_inline = <<"<strong>">> \o _inline(Inner(text.v)) \o <<"</strong>">>

CodeSpanText(v) ==
    /\ Len(v) >= 3
    /\ v[1] = Grave
    /\ v[Len(v)] = Grave
    /\ \A k \in 2..(Len(v) - 1) : v[k] # Grave

SpanContent(v) == SubSeq(v, 2, Len(v) - 1)

\* C18: a code span renders as one code element whose content is exactly the
\* escaped text between the backticks: no later rule creates an element in
\* it.
C18_CodeSpanContentVerbatim ==
    (pc = "inl_returned" /\ CodeSpanText(text.v)) =>
        t_inline = <<"<code>">> \o escapeHTML(JsStr(SpanContent(text.v))) \o <<"</code>">>

\* how many of the elements named in tags are open after the first k symbols of s
RECURSIVE OpenDepth(_, _, _)
OpenDepth(s, k, tags) ==
    IF k = 0 THEN 0
    ELSE OpenDepth(s, k - 1, tags)
           + (IF s[k] \in {"<" \o g \o ">" : g \in tags} THEN 1
              ELSE IF s[k] \in {"</" \o g \o ">" : g \in tags} THEN -1 ELSE 0)

\* in s, where a rule's matches are marked by the symbols of marks, every
\* mark lies outside the elements that earlier rules substituted: no match
\* begins or ends inside one
Opaque(s, marks, earlier) ==
    \A k \in 1..Len(s) : s[k] \in marks => OpenDepth(s, k, earlier) = 0

PairMarks == {"<new>", "</new>"}

\* C19: the output of an earlier rule is opaque to every later rule: in the
\* text each rule receives, none of its matches begins or ends inside an
\* element that an earlier rule substituted.
C19_EarlierOutputOpaque ==
    /\ pc = "inl_code" =>
         Opaque(ReplaceLazy(ReplaceLazy(t_inline, <<"*", "*">>, "<new>", "</new>", 1),
                            <<"_", "_">>, "<new>", "</new>", 1),
                PairMarks, {"code"})
    /\ pc = "inl_bold" =>
         Opaque(ReplaceNeg(ReplaceNeg(t_inline, "*", "<new>", "</new>", 1),
                           "_", "<new>", "</new>", 1),
                PairMarks, {"code", "strong"})
    /\ pc = "inl_italic" =>
         Opaque(ReplaceLazy(t_inline, <<"=", "=">>, "<new>", "</new>", 1),
                PairMarks, {"code", "strong", "em"})
    /\ pc = "inl_mark" =>
         Opaque(ReplaceLazy(t_inline, <<"~", "~">>, "<new>", "</new>", 1),
                PairMarks, {"code", "strong", "em", "mark"})
    /\ pc = "inl_del" =>
         Opaque(ReplaceLink(t_inline, 1), {AnchorOpen, AnchorMid, "</a>"},
                {"code", "strong", "em", "mark", "del"})

\* C20: render is a function of its input alone: whatever the Store holds and
\* whatever calls and operations came before, the preview receives
\* sanitizeHTML(parse(text)) for the text rendered, and no step of a render
\* call changes the Store's state or the stored item.
C20_RenderIsPure ==
    /\ [][PreviewSanitize => result' = sanitizeHTML(JsStr(parse(text)))]_vars
    /\ [][NextRender => UNCHANGED <<state, storage>>]_vars

C20_Witness ==
    /\ pc = "rendered"
    /\ Len(state.notes) = 2
    /\ state.hasUnsavedChanges
    /\ storage # NoItem
    /\ _renderTimer.pending
    /\ output # <<>>
    /\ result = sanitizeHTML(JsStr(parse(text)))
    /\ text.v # Find(state.notes, state.activeNoteId).content

\* C21: under every interleaving of confirmed deletions, Undo clicks and
\* purge timeouts, every element of state.notes is a note object and no
\* Undo click raises an error; an Undo after the purge inserts nothing.
C21_NotesStayNotes ==
    /\ \A k \in 1..Len(state.notes) : IsNote(state.notes[k])
    /\ ~thrown

\* the note whose deletion showed the toast n
ToastNote(n) == toasts[CHOOSE k \in 1..Len(toasts) : toasts[k].n = n].note

\* C22: a click on Undo in the toast shown for the deletion of X, while X
\* is in the trash, puts exactly X at the front of state.notes and makes
\* X the active note, also when another note was deleted in between.
C22_UndoRestoresItsNote ==
    [][\A n \in 1..MaxDeletes :
         (undoBtn_onclick(n) /\ Includes(state.trash, ToastNote(n)))
            => /\ state'.notes = <<ToastNote(n)>> \o state.notes
               /\ state'.activeNoteId = ToastNote(n).id]_vars

\* the texts found between a "(" and the first ")" after it
UrlTexts(v) ==
    {SubSeq(v, a + 1, b - 1) : a \in {k \in 1..Len(v) : v[k] = "("},
                               b \in {k \in 1..Len(v) : v[k] = ")"}}

AttrNames(n) == [k \in 1..Len(n.attrs) |-> n.attrs[k].name]

\* C23: every anchor element of the markup the parser assembles has exactly
\* the attributes href, target and rel, and its href is the url written
\* between the parentheses: no character of the link ends the attribute
\* value or adds an attribute.
C23_AnchorAttributesFixed ==
    (pc = "parsed" /\ text.t = "string") =>
        \A n \in Elements(ParseFragment(html.v)) :
            n.name = "a" =>
                /\ AttrNames(n) = <<"href", "target", "rel">>
                /\ n.attrs[1].value \in UrlTexts(text.v)

\* the opening tag each closing tag of the inline formatter belongs to
OpenerOf(c) ==
    CASE c = "</code>"   -> "<code>"
      [] c = "</strong>" -> "<strong>"
      [] c = "</em>"     -> "<em>"
      [] c = "</mark>"   -> "<mark>"
      [] c = "</del>"    -> "<del>"
      [] c = "</a>"      -> AnchorOpen

SpanClosers == {"</code>", "</strong>", "</em>", "</mark>", "</del>", "</a>"}

SpanOpeners == {OpenerOf(c) : c \in SpanClosers}

\* from symbol k on, each closing tag of t closes the tag on top of the
\* stack of tags opened and not yet closed
RECURSIVE ProperlyNested(_, _, _)
ProperlyNested(t, k, open) ==
    IF k > Len(t) THEN open = <<>>
    ELSE IF t[k] \in SpanOpeners THEN ProperlyNested(t, k + 1, <<t[k]>> \o open)
    ELSE IF t[k] \in SpanClosers
         THEN /\ open # <<>>
              /\ Head(open) = OpenerOf(t[k])
              /\ ProperlyNested(t, k + 1, Tail(open))
    ELSE ProperlyNested(t, k + 1, open)

\* C24: the code, strong, em, mark, del and a tags the inline formatter
\* emits for a line are properly nested: each closing tag closes the most
\* recently opened tag that is still open, so no two spans partially overlap.
C24_SpansProperlyNested ==
    pc = "inl_returned" => ProperlyNested(t_inline, 1, <<>>)

\* three or more symbols, all of them "-"
DashesOnly(line) == Len(line) >= 3 /\ \A k \in 1..Len(line) : line[k] = "-"

\* line k (from 0) is the only line of an entry of output that is one break
YieldsBreak(k) ==
    \E j \in 1..Len(output) :
        /\ starts[j] = k
        /\ output[j] = <<"<hr>">>
        /\ IF j < Len(output) THEN starts[j + 1] = k + 1 ELSE Len(lines) = k + 1

\* C25 as stated: outside a code block a line yields a thematic break
\* exactly when it consists solely of three or more "-"; the break
\* consumes that one line and is one entry of output.
C25_BreakIffDashesOnly ==
    Returned =>
        \A k \in 0..(Len(lines) - 1) :
            ~InsideCode(lines, k) => (YieldsBreak(k) <=> DashesOnly(lines[k + 1]))

\* C25, amended: outside a code block a line yields a thematic break
\* exactly when, with the white space at its two ends removed, it consists
\* of three or more "-"; the break consumes that one line and is one entry
\* of output.
C25_BreakIffTrimmedDashesOnly ==
    Returned =>
        \A k \in 0..(Len(lines) - 1) :
            ~InsideCode(lines, k) => (YieldsBreak(k) <=> DashesOnly(Trim(lines[k + 1])))

C25_Witness ==
    /\ pc = "parsed"
    /\ Len(lines) = 2
    /\ lines[1] # Trim(lines[1])
    /\ YieldsBreak(0)
    /\ lines[2] = <<"-", "-", "-", "x">>
    /\ ~YieldsBreak(1)

\* the number of "#" a line starts with when one, two or three of them are
\* followed by a space, 0 otherwise
HashLevel(line) ==
    IF StartsAt(line, <<"#", " ">>, 1) THEN 1
    ELSE IF StartsAt(line, <<"#", "#", " ">>, 1) THEN 2
    ELSE IF StartsAt(line, <<"#", "#", "#", " ">>, 1) THEN 3
    ELSE 0

HeadingTags == {"<h1>", "<h2>", "<h3>"}

\* an entry of output that starts at line k (from 0) is a heading
YieldsHeading(k) ==
    \E j \in 1..Len(output) : starts[j] = k /\ output[j][1] \in HeadingTags

\* line k is the only line of an entry of output: the heading of level n
\* whose text is the inline-formatted remainder of the line
HeadingEntry(k, n) ==
    LET h == CASE n = 1 -> "h1" [] n = 2 -> "h2" [] OTHER -> "h3" IN
    \E j \in 1..Len(output) :
        /\ starts[j] = k
        /\ output[j] = <<"<" \o h \o ">">>
                         \o _inline(SubSeq(lines[k + 1], n + 2, Len(lines[k + 1])))
                         \o <<"</" \o h \o ">">>
        /\ IF j < Len(output) THEN starts[j + 1] = k + 1 ELSE Len(lines) = k + 1

QuoteLine(line) == Len(line) >= 2 /\ line[1] = ">" /\ line[2] = " "

\* the maximal runs <<a, b>> of consecutive lines starting with "> " outside
\* code blocks: lines a .. b (from 1)
QuoteRuns ==
    {r \in (1..Len(lines)) \X (1..Len(lines)) :
        /\ r[1] <= r[2]
        /\ \A k \in r[1]..r[2] : QuoteLine(lines[k])
        /\ ~InsideCode(lines, r[1] - 1)
        /\ r[1] = 1 \/ ~QuoteLine(lines[r[1] - 1])
        /\ r[2] = Len(lines) \/ ~QuoteLine(lines[r[2] + 1])}

\* the blockquote of lines a .. b: their inline-formatted remainders in line
\* order, separated by <br>
QuoteOf(a, b) ==
    <<"<blockquote>">>
      \o Join([n \in 1..(b - a + 1) |->
                 _inline(SubSeq(lines[a + n - 1], 3, Len(lines[a + n - 1])))],
              <<"<br>">>)
      \o <<"</blockquote>">>

\* C27: each maximal run of k consecutive lines starting with "> " is one
\* blockquote holding the k inline-formatted remainders in line order: one
\* entry of output starts at the run's first line, none at its other lines,
\* and the line after the run starts an entry of its own.
C27_OneBlockquotePerRun ==
    Returned =>
        \A r \in QuoteRuns :
            /\ \E j \in 1..Len(output) :
                  starts[j] = r[1] - 1 /\ output[j] = QuoteOf(r[1], r[2])
            /\ \A j \in 1..Len(output) : ~(r[1] <= starts[j] /\ starts[j] < r[2])
            /\ r[2] < Len(lines) => \E j \in 1..Len(output) : starts[j] = r[2]

C27_Witness ==
    /\ pc = "parsed"
    /\ Len(lines) = 3
    /\ <<1, 2>> \in QuoteRuns
    /\ lines[1] # lines[2]
    /\ Has(output[1], "<em>")
    /\ Len(output) = 2

Count(seq, x) == Cardinality({k \in 1..Len(seq) : seq[k] = x})

\* a call of setState is made: by an event handler or by a callback
SetStateCalled(updates) == setState(updates) \/ CallbackSetsState(updates)

CallbackInvoked ==
    \/ CallbackReturns
    \/ CallbackThrows
    \/ \E callback \in Callbacks : CallbackCancels(callback) \/ CallbackSubscribes(callback)
    \/ \E updates \in Updates : CallbackSetsState(updates)

\* C29: a callback whose cancel function has been called is not invoked
\* again, by a notification in progress at that moment or by a later one,
\* and the cancel function removes no other callback.
C29_CancelledNeverInvoked ==
    /\ [][CallbackInvoked => NextCallback \notin cancelled]_vars
    /\ [][\A callback \in Callbacks :
             (cancel(callback) \/ CallbackCancels(callback)) =>
                subscribers' = SelectSeq(subscribers, LAMBDA c : c # callback)]_vars

\* an input event of the editor or of the title field is handled
InputArrives ==
    \/ \E value \in EditorTexts : _onEditorInput(value)
    \/ \E value \in TitleTexts : _onTitleInput(value)

\* the stored item is the state's persistable part and nothing is unsaved
Persisted == ~state.hasUnsavedChanges /\ storage = <<Persistable(state)>>

\* C30: at most one auto-save timeout is pending; an input writes nothing,
\* clears the timeout set before and leaves one new timeout pending; and
\* while the storage accepts writes, unsaved changes are eventually
\* persisted, hasUnsavedChanges becoming false.
C30_DebouncedAutoSave ==
    /\ [](Cardinality(timeouts) <= 1)
    /\ [][InputArrives =>
             /\ storage' = storage
             /\ _saveTimer' \notin timeouts
             /\ timeouts' = {_saveTimer'}]_vars
    /\ (~quotaExceeded /\ state.hasUnsavedChanges) ~> Persisted

\* a second input arrived while the timeout of the first was pending, after
\* an earlier save
C30_Witness ==
    /\ ~quotaExceeded
    /\ state.hasUnsavedChanges
    /\ timeouts = {_saveTimer}
    /\ state.activeNoteId \in IdsOf(state.notes)
    /\ Find(state.notes, state.activeNoteId).title = <<"T">>
    /\ Find(state.notes, state.activeNoteId).content # <<>>
    /\ storage # NoItem
    /\ storage # <<Persistable(state)>>

---------------------------------------------------------------------------
(* C31: whenever the save-status indicator shows 'saved', the store's      *)
(* hasUnsavedChanges is false; an edit made between the start of a save    *)
(* and its delayed 'saved' update is never reported as saved.              *)

C31_SavedShownOnlyWhenSaved == saveStatus = "saved" => ~state.hasUnsavedChanges

---------------------------------------------------------------------------
(* C32: every note moved to the trash by a confirmed delete is, unless     *)
(* Undo restores it, eventually removed from the trash, and the removal is *)
(* persisted: no note stays in the trash indefinitely.                     *)

\* the note of the id is in the array (of notes, undefined or null)
Holds(ns, id) == \E k \in 1..Len(ns) : IsNote(ns[k]) /\ ns[k].id = id

InTrash(id) == Holds(state.trash, id)

InStoredTrash(id) == storage # NoItem /\ Holds(storage[1].trash, id)

C32_TrashedEventuallyPurged ==
    \A id \in NoteIds : InTrash(id) ~> (~InTrash(id) /\ ~InStoredTrash(id))

---------------------------------------------------------------------------
(* C33: after any sequence of edits, selections and deletions, once every  *)
(* scheduled animation-frame callback has run, the preview holds the       *)
(* sanitized render of the active note's content, and is empty when no     *)
(* note is active.                                                         *)

\* no frame is requested and no callback is running
FramesDone == Idle /\ ~_renderTimer.pending

\* what the preview is to show for the state
Shown(st) ==
    IF st.activeNoteId \in IdsOf(st.notes)
    THEN sanitizeHTML(JsStr(parse(JsStr(Find(st.notes, st.activeNoteId).content))))
    ELSE <<>>

C33_PreviewShowsActiveNote == FramesDone => result = Shown(state)

---------------------------------------------------------------------------
(* C34: hasUnsavedChanges is never persisted as true: what saveToStorage   *)
(* writes does not hold the flag, the flag is false right after every      *)
(* saveToStorage that succeeds, and false after every loadFromStorage that *)
(* finds a stored item.                                                    *)

\* a handler that calls Store.saveToStorage() runs
Saves ==
    \/ _createNewNote
    \/ \E noteId \in NoteIds : _selectNote(noteId)
    \/ _autoSave
    \/ _saveNow

HoldsFlag(raw) == raw # NoItem /\ "hasUnsavedChanges" \in DOMAIN raw[1]

C34_FlagNeverPersisted ==
    /\ [][storage' # storage => ~HoldsFlag(storage')]_vars
    /\ [][Saves /\ ~quotaExceeded =>
            ~state'.hasUnsavedChanges /\ ~HoldsFlag(storage')]_vars
    /\ [][_init /\ Unloaded # NoItem => ~state'.hasUnsavedChanges]_vars

\* _autoSave has just saved a note with content, and the save succeeded
C34_Witness ==
    /\ saveStatus = "saving"
    /\ ~quotaExceeded
    /\ ~state.hasUnsavedChanges
    /\ storage = <<Persistable(state)>>
    /\ \E k \in 1..Len(state.notes) : state.notes[k].content # <<>>

---------------------------------------------------------------------------
(* C35: in every state reached through initialisation from persisted data, *)
(* create, select, delete and undo, activeNoteId is null or the id of a    *)
(* note of the notes list.                                                 *)

C35_ActiveNoteExists ==
    state.activeNoteId = Null \/ Holds(state.notes, state.activeNoteId)

---------------------------------------------------------------------------
(* C36: for each dialog opened with Modal.confirm exactly one of its two   *)
(* callbacks is invoked, exactly once: the confirm button invokes          *)
(* onConfirm and not onCancel, a dismissal onCancel and not onConfirm.     *)

\* the number of invocations of the callbacks of the d-th dialog
Calls(d) == Cardinality({k \in 1..Len(invoked) : invoked[k].d = d})

C36_ExactlyOneCallback ==
    \A d \in 1..Len(opened) :
       /\ Calls(d) <= 1
       /\ opened[d].dismissed /\ opened[d].onConfirm /\ opened[d].onCancel
             => Calls(d) = 1

---------------------------------------------------------------------------
(* C37: leaving Zen Mode restores the sidebar only if the user had not     *)
(* collapsed it: a sidebar collapsed by the user is still collapsed after  *)
(* Zen Mode is entered and left, so that outside Zen Mode the sidebar's    *)
(* collapsed class matches the persisted ui.sidebarCollapsed.              *)

C37_ZenKeepsSidebar ==
    /\ [](~zenMode => collapsed = state.ui.sidebarCollapsed)
    /\ [][zenMode /\ ~zenMode' /\ state'.ui.sidebarCollapsed => collapsed']_vars

=============================================================================
